---- MODULE Spec2Model ----
(***************************************************************************)
(* SessionManager (packages/partykit-js/src/SessionManager.ts) as a state  *)
(* machine.  connect, disconnect and the grace-timer callback are async    *)
(* functions: each runs synchronously up to an awaited hook, is suspended  *)
(* while the hook runs, and resumes later.  Every call in flight is a task *)
(* with a position (pc); other calls and timers interleave at the awaits.  *)
(*                                                                         *)
(* Session records are objects: a suspended call keeps its reference while *)
(* the sessions map changes under it.  The object the map holds for a      *)
(* client is named "a" or "b" (a new object takes the name the current one *)
(* does not have).  An object the map no longer holds keeps no fields in   *)
(* the model; the references to it turn into "removed" (remove() or        *)
(* clear() deleted it) or "gone" (deleted by a timeout, or overwritten).   *)
(***************************************************************************)
EXTENDS Integers, Sequences, FiniteSets, Bags, TLC

\* ---------------------------------------------------------------- inputs
ClientIds == {"c1", "c2"}
Contexts == {"ctx1", "ctx2"}
\* initialData is optional: "undefined" is the omitted argument
DataValues == {"undefined", "d1"}
\* the values Date.now() returns
Times == {1, 2}

\* The calls made: "c1" is called with every argument, "c2" (the other
\* client in the claims about other clients) with one.
ConnectArgs ==
    {<<"c1", context, initialData>> : context \in Contexts, initialData \in DataValues}
        \cup {<<"c2", "ctx1", "d1">>}
DisconnectArgs == {<<"c1", time>> : time \in Times} \cup {<<"c2", 1>>}

\* calls in flight plus grace timers pending, at the same time
MaxActive == 2

\* disconnectedAt?: number -- the absent value
Absent == 0

VARIABLES
    enableReconnection, \* options.enableReconnection ?? true
    sessions,           \* Map clientId -> session object ("none": no entry)
    heap,               \* the fields of the object sessions holds, per client
    disconnectTimers,   \* Map clientId -> timer handle ("none": no entry)
    timers,             \* timers started and neither fired nor cleared, oldest first
    tasks               \* async calls in flight (a bag)

vars == <<enableReconnection, sessions, heap, disconnectTimers, timers, tasks>>

\* The room adapter (PartyKitColyseusRoom) and its presence tracker.
VARIABLES
    clients,            \* this.clients: the connections of the room, in join order
    left,               \* the session ids of the connections that have left
    ctxBySessionId,     \* PresenceTracker.ctxBySessionId, in insertion order
    connState,          \* history: how far each connection got in the handshake
    calls,              \* handler calls in flight (a bag)
    tick                \* this.tick

roomVars == <<clients, left, ctxBySessionId, connState, calls, tick>>

\* The trivia game (TriviaRoom) behind the adapter.
VARIABLES
    gameHello,          \* history: the hello each connection was authorized with
    gameCtx,            \* presenceTracker: the context assigned to each connection
    gameJoined,         \* the connections whose room.join was accepted
    pkState,            \* this.pkState
    handled             \* the envelope handled last and what was sent for it

gameVars == <<gameHello, gameCtx, gameJoined, pkState, handled>>

\* The envelope builder and its codec.
VARIABLES
    codecIn,            \* the codec in use and the options encode was called with
    codecEnv,           \* the envelope encode created
    wire,               \* the encoded value
    codecOut            \* what decodeAndUnpack returned for it

codecVars == <<codecIn, codecEnv, wire, codecOut>>

\* The session manager of the Colyseus rooms (ColyseusSessionManager).
VARIABLES
    managed,            \* its sessions: "none", "connected" or "disconnected" per client
    graceTimers,        \* its timers started and neither fired nor cleared, oldest first
    deferredClients,    \* Map clientId -> deferred client ("none": no entry)
    rejections,         \* history: how often reject() was called on each deferred client
    issued,             \* history: the deferred clients handed to setDeferredClient
    wrapped             \* its async calls in flight (a bag)

deferVars == <<managed, graceTimers, deferredClients, rejections, issued, wrapped>>

\* The trivia game with reconnection (TriviaRoom), behind the session manager.
VARIABLES
    triviaState,        \* this.pkState of the room
    questionTimer,      \* this.questionTimer and the question timers pending
    advanceTimer,       \* this.advanceTimer and the advance timers pending
    sessionManager,     \* this.sessionManager: the session of each client
    answered            \* history: the answers recorded for each player in the current question

triviaVars == <<triviaState, questionTimer, advanceTimer, sessionManager,
                answered>>

\* ------------------------------------------------------------- records
\* No object.
NoSession ==
    [context |-> "none", isConnected |-> FALSE,
     disconnectedAt |-> Absent, data |-> "undefined"]

\* Variant of NewSession that drops initialData.
NewSessionWithoutData(context, initialData) ==
    [context |-> context, isConnected |-> TRUE,
     disconnectedAt |-> Absent, data |-> "undefined"]

\* const session = { context, isConnected: true, data: initialData }
NewSession(context, initialData) ==
    [context |-> context, isConnected |-> TRUE,
     disconnectedAt |-> Absent, data |-> initialData]

\* Variant of Reconnect that leaves disconnectedAt as the disconnect set it.
ReconnectKeepingDisconnectedAt(s, context, initialData) ==
    [s EXCEPT !.isConnected = TRUE, !.context = context]

\* Variant of Reconnect that resets the record from the arguments.
ReconnectResettingData(s, context, initialData) ==
    [context |-> context, isConnected |-> TRUE,
     disconnectedAt |-> Absent, data |-> initialData]

\* existing.isConnected = true; existing.disconnectedAt = undefined;
\* existing.context = context
Reconnect(s, context, initialData) ==
    [s EXCEPT !.isConnected = TRUE, !.disconnectedAt = Absent,
              !.context = context]

\* Variant of MarkDisconnected that does not stamp the time.
MarkDisconnectedWithoutTime(s, time) == [s EXCEPT !.isConnected = FALSE]

\* session.isConnected = false; session.disconnectedAt = Date.now()
MarkDisconnected(s, time) ==
    [s EXCEPT !.isConnected = FALSE, !.disconnectedAt = time]

\* One call of a hook, with its arguments.
Hook(name, clientId, session, isReconnect) ==
    [name |-> name, clientId |-> clientId, session |-> session,
     isReconnect |-> isReconnect]

\* A call in flight: op is the function, pc the await it is suspended at
\* ("done": it returned before any await and the caller has not resumed yet),
\* session the local variable existing/session, args the other arguments of
\* the call, hooks the hook calls it made.
\* History kept with the call:
\*   voided        the timer that called handleTimeout was pending when
\*                 clientId reconnected
\*   reconnected   clientId reconnected while onTimeout was running
\*   ownerRemoved  onTimeout was called on behalf of a record that remove()
\*                 or clear() had deleted before the call
Task(op, pc, clientId, args, session, isReconnect, hooks) ==
    [op |-> op, pc |-> pc, clientId |-> clientId, args |-> args,
     session |-> session, isReconnect |-> isReconnect, hooks |-> hooks,
     voided |-> FALSE, reconnected |-> FALSE, ownerRemoved |-> FALSE]

\* ------------------------------------------------------------- helpers
Running == BagToSet(tasks)
Spawn(tsk, task) == tsk (+) SetToBag({task})
Finish(tsk, task) == tsk (-) SetToBag({task})
Step(tsk, task, next) == Spawn(Finish(tsk, task), next)
Active(tsk, tmr) == BagCardinality(tsk) + Len(tmr)

\* The name of a new object of client c.
NewObj(c) == IF sessions[c] = "a" THEN "b" ELSE "a"

\* The object the map held for c leaves the map: the references to it become `as`.
DetachRef(r, as) == IF r \in {"a", "b"} THEN as ELSE r
DetachTask(t, c, as) ==
    IF t.clientId = c
    THEN [t EXCEPT !.session = DetachRef(@, as),
                   !.hooks = [i \in 1..Len(@) |->
                                [@[i] EXCEPT !.session = DetachRef(@, as)]]]
    ELSE t
DetachTasks(tsk, c, as) == BagOfAll(LAMBDA t : DetachTask(t, c, as), tsk)
DetachTimers(tmr, c, as) ==
    [i \in 1..Len(tmr) |->
        IF tmr[i].clientId = c THEN [tmr[i] EXCEPT !.owner = DetachRef(@, as)]
        ELSE tmr[i]]

\* clearTimeout(this.disconnectTimers.get(c)): the timer the map holds for c
\* is cancelled; a timer that has fired is left alone
ClearTimeout(tmr, c) == SelectSeq(tmr, LAMBDA x : ~(x.clientId = c /\ x.mapped))

\* this.disconnectTimers.set(c, timer): the handle the map held before is dropped
Unmap(tmr, c) ==
    [i \in 1..Len(tmr) |->
        IF tmr[i].clientId = c THEN [tmr[i] EXCEPT !.mapped = FALSE] ELSE tmr[i]]

\* Pending timers whose callback is handleTimeout(c).
PendingFor(c) == {i \in 1..Len(timers) : timers[i].clientId = c}

\* history: the pending timers of c that outlive a reconnect of c
Voided(tmr, c) ==
    [i \in 1..Len(tmr) |->
        IF tmr[i].clientId = c THEN [tmr[i] EXCEPT !.voided = TRUE] ELSE tmr[i]]

\* ---------------------------------------------------- the read-only API
Get(c) == sessions[c]
Has(c) == sessions[c] # "none"
All == {c \in ClientIds : sessions[c] # "none"}
Connected == {c \in All : heap[c].isConnected}
Disconnected == {c \in All : ~heap[c].isConnected}
Size == Cardinality(All)

\* ---------------------------------------------------------------- Init
\* client.sessionId of the connections, in the order the connections are
\* made; an id is used by one connection only
SessionIds == {"s1", "s2", "s3"}
SessionOrder == <<"s1", "s2", "s3">>

\* Nothing encoded yet.
NoAny == [typeUrl |-> "", value |-> ""]
NoOptions == [codec |-> "none"]
NoWire == [ok |-> FALSE, value |-> << >>]
NoResult == [done |-> FALSE, null |-> TRUE, data |-> NoAny, envelope |-> << >>]

CodecInit ==
    /\ codecIn = NoOptions
    /\ codecEnv = << >>
    /\ wire = NoWire
    /\ codecOut = NoResult

\* No player: pkState.players has no entry for the client.
NoPlayer ==
    [present |-> FALSE, isReady |-> FALSE, isConnected |-> FALSE,
     score |-> 0, currentAnswer |-> "undefined"]

\* No timer: the handle refers to no pending timer and none is pending
\* without a handle.
NoTimer == [mapped |-> FALSE, leaked |-> 0]

\* No session. data.shared: session.data is the object pkState.players holds
\* for the client; otherwise data.value is the content of the object
\* session.data refers to. History: leftIn is the phase of the game when the
\* client lost its connection ("none" while it is connected).
NoTriviaSession ==
    [exists |-> FALSE, isConnected |-> FALSE, timer |-> FALSE,
     data |-> [defined |-> FALSE, shared |-> FALSE, value |-> NoPlayer],
     leftIn |-> "none"]

\* A TriviaRoom as constructed.
TriviaInit ==
    /\ triviaState =
          [phase |-> "lobby",
           players |-> [c \in ClientIds |-> NoPlayer],
           order |-> <<>>,
           currentQuestionIndex |-> -1,
           previousPhase |-> "undefined",
           waitingForPlayers |-> [defined |-> FALSE, ids |-> <<>>],
           winnerId |-> "undefined"]
    /\ questionTimer = NoTimer
    /\ advanceTimer = NoTimer
    /\ sessionManager = [c \in ClientIds |-> NoTriviaSession]
    /\ answered = [c \in ClientIds |-> 0]

\* The deferred clients Room.allowReconnection hands out.
Deferreds == {"d1", "d2"}

\* A ColyseusSessionManager as constructed.
DeferInit ==
    /\ managed = [c \in ClientIds |-> "none"]
    /\ graceTimers = <<>>
    /\ deferredClients = [c \in ClientIds |-> "none"]
    /\ rejections = [d \in Deferreds |-> 0]
    /\ issued = {}
    /\ wrapped = EmptyBag

\* No hello yet, no context (undefined).
NoHello == [kind |-> "none", name |-> "none"]
NoGameContext ==
    [clientId |-> "none", kind |-> "none", displayName |-> "", role |-> "none",
     capabilities |-> {}, groups |-> {}]
NothingHandled == [client |-> "none", type |-> "none", name |-> "none", sent |-> << >>]

\* new TriviaRoom(): pkState = { phase: "lobby", players: {} }
GameInit ==
    /\ gameHello = [s \in SessionIds |-> NoHello]
    /\ gameCtx = [s \in SessionIds |-> NoGameContext]
    /\ gameJoined = {}
    /\ pkState = [phase |-> "lobby", players |-> [s \in SessionIds |-> "none"]]
    /\ handled = NothingHandled

\* the connections that are closed while the room lives: the first one
Leavers == {"s1"}

\* new PresenceTracker(), a room without connections
RoomInit ==
    /\ clients = <<>>
    /\ left = {}
    /\ ctxBySessionId = <<>>
    /\ connState = [s \in SessionIds |-> "UNAUTHENTICATED"]
    /\ calls = EmptyBag
    /\ tick = 0

Init ==
    /\ enableReconnection \in BOOLEAN
    /\ sessions = [c \in ClientIds |-> "none"]
    /\ heap = [c \in ClientIds |-> NoSession]
    /\ disconnectTimers = [c \in ClientIds |-> "none"]
    /\ timers = <<>>
    /\ tasks = EmptyBag
    /\ RoomInit
    /\ GameInit
    /\ CodecInit
    /\ DeferInit
    /\ TriviaInit

\* ------------------------------------------------------------- connect
\* Variant of Existing that looks the record up whatever the option says.
ExistingIgnoringOption(c) == sessions[c]

\* const existing = this.enableReconnection ? this.sessions.get(clientId) : undefined
Existing(c) == IF enableReconnection THEN sessions[c] ELSE "none"

\* history: the calls of c suspended at a hook see c reconnect
MarkReconnect(t, c) ==
    IF t.op = "handleTimeout" /\ t.clientId = c
    THEN [t EXCEPT !.reconnected = TRUE]
    ELSE t

\* connect(), up to the awaited onConnected hook
ConnectStart(c, context, initialData) ==
    /\ UNCHANGED <<roomVars, gameVars, codecVars, deferVars, triviaVars>>
    /\ LET existing == Existing(c)
       IN IF existing # "none"
          THEN /\ timers' = Voided(ClearTimeout(timers, c), c)
               /\ disconnectTimers' = [disconnectTimers EXCEPT ![c] = "none"]
               /\ heap' = [heap EXCEPT ![c] = Reconnect(@, context, initialData)]
               /\ tasks' = Spawn(BagOfAll(LAMBDA t : MarkReconnect(t, c), tasks),
                     Task("connect", "onConnected", c, <<context, initialData>>, existing, TRUE,
                          <<Hook("onConnected", c, existing, TRUE)>>))
               /\ UNCHANGED sessions
          ELSE LET session == NewObj(c)
               IN /\ sessions' = [sessions EXCEPT ![c] = session]
                  /\ heap' = [heap EXCEPT ![c] = NewSession(context, initialData)]
                  /\ tasks' = Spawn(DetachTasks(tasks, c, "gone"),
                        Task("connect", "onConnected", c, <<context, initialData>>, session, FALSE,
                             <<Hook("onConnected", c, session, FALSE)>>))
                  /\ timers' = DetachTimers(timers, c, "gone")
                  /\ UNCHANGED disconnectTimers
    /\ Active(tasks', timers') <= MaxActive
    /\ UNCHANGED enableReconnection

\* onConnected has completed: return { session, isReconnect }
ConnectReturn(t) ==
    /\ UNCHANGED <<roomVars, gameVars, codecVars, deferVars, triviaVars>>
    /\ t.op = "connect" /\ t.pc = "onConnected"
    /\ tasks' = Finish(tasks, t)
    /\ UNCHANGED <<enableReconnection, sessions, heap, disconnectTimers, timers>>

\* Variant of DisconnectStart that starts the grace timer before it calls
\* onDisconnected.
DisconnectStartTimerFirst(c, time) ==
    /\ UNCHANGED <<roomVars, gameVars, codecVars, deferVars, triviaVars>>
    /\ Active(tasks, timers) < MaxActive
    /\ LET session == sessions[c]
       IN IF session = "none"
          THEN /\ tasks' = Spawn(tasks,
                      Task("disconnect", "done", c, <<time>>, "none", FALSE, <<>>))
               /\ UNCHANGED <<heap, timers, disconnectTimers>>
          ELSE /\ tasks' = Spawn(tasks,
                      Task("disconnect", "onDisconnected", c, <<time>>, session, FALSE,
                           <<Hook("onDisconnected", c, session, FALSE)>>))
               /\ heap' = [heap EXCEPT ![c] = MarkDisconnected(@, time)]
               /\ timers' = Append(Unmap(timers, c),
                     [clientId |-> c, mapped |-> TRUE, owner |-> session,
                      voided |-> FALSE])
               /\ disconnectTimers' = [disconnectTimers EXCEPT ![c] = "pending"]
    /\ UNCHANGED <<enableReconnection, sessions>>

\* ---------------------------------------------------------- disconnect
\* Variant of DisconnectStart that does not return early when there is no
\* session: it calls onDisconnected all the same.
DisconnectStartWithoutLookup(c, time) ==
    /\ UNCHANGED <<roomVars, gameVars, codecVars, deferVars, triviaVars>>
    /\ Active(tasks, timers) < MaxActive
    /\ tasks' = Spawn(tasks,
          Task("disconnect", "onDisconnected", c, <<time>>, sessions[c], FALSE,
               <<Hook("onDisconnected", c, sessions[c], FALSE)>>))
    /\ heap' = [heap EXCEPT ![c] = MarkDisconnected(@, time)]
    /\ UNCHANGED <<enableReconnection, sessions, disconnectTimers, timers>>

\* disconnect(), up to the awaited onDisconnected hook
DisconnectStart(c, time) ==
    /\ UNCHANGED <<roomVars, gameVars, codecVars, deferVars, triviaVars>>
    /\ Active(tasks, timers) < MaxActive
    /\ LET session == sessions[c]
       IN IF session = "none"
          THEN /\ tasks' = Spawn(tasks,
                      Task("disconnect", "done", c, <<time>>, "none", FALSE, <<>>))
               /\ UNCHANGED heap
          ELSE /\ tasks' = Spawn(tasks,
                      Task("disconnect", "onDisconnected", c, <<time>>, session, FALSE,
                           <<Hook("onDisconnected", c, session, FALSE)>>))
               /\ heap' = [heap EXCEPT ![c] = MarkDisconnected(@, time)]
    /\ UNCHANGED <<enableReconnection, sessions, disconnectTimers, timers>>

\* Variant of StartsTimer that starts the grace timer whatever the option says.
StartsTimerAlways == TRUE

\* if (this.enableReconnection) { setTimeout ... } else { onTimeout; delete }
StartsTimer == enableReconnection

\* onDisconnected has completed: start the grace timer and return, or call
\* onTimeout at once and await it
DisconnectResume(t) ==
    /\ UNCHANGED <<roomVars, gameVars, codecVars, deferVars, triviaVars>>
    /\ t.op = "disconnect" /\ t.pc = "onDisconnected"
    /\ LET c == t.clientId
           session == t.session
       IN IF StartsTimer
          THEN /\ timers' = Append(Unmap(timers, c),
                     [clientId |-> c, mapped |-> TRUE, owner |-> session,
                      voided |-> FALSE])
               /\ disconnectTimers' = [disconnectTimers EXCEPT ![c] = "pending"]
               /\ tasks' = Finish(tasks, t)
          ELSE /\ tasks' = Step(tasks, t,
                      [t EXCEPT !.pc = "onTimeout",
                                !.hooks = Append(@, Hook("onTimeout", c, session, FALSE)),
                                !.ownerRemoved = (session = "removed")])
               /\ UNCHANGED <<timers, disconnectTimers>>
    /\ UNCHANGED <<enableReconnection, sessions, heap>>

\* Variant of DeleteSession that leaves the fields of the record behind.
DeleteSessionKeepingFields(c) ==
    /\ sessions' = [sessions EXCEPT ![c] = "none"]
    /\ UNCHANGED heap

\* this.sessions.delete(clientId) by a timeout
DeleteSession(c) ==
    /\ sessions' = [sessions EXCEPT ![c] = "none"]
    /\ heap' = [heap EXCEPT ![c] = NoSession]

\* reconnection disabled, onTimeout has completed: this.sessions.delete(clientId)
DisconnectDelete(t) ==
    /\ UNCHANGED <<roomVars, gameVars, codecVars, deferVars, triviaVars>>
    /\ t.op = "disconnect" /\ t.pc = "onTimeout"
    /\ DeleteSession(t.clientId)
    /\ tasks' = DetachTasks(Finish(tasks, t), t.clientId, "gone")
    /\ timers' = DetachTimers(timers, t.clientId, "gone")
    /\ UNCHANGED <<enableReconnection, disconnectTimers>>

\* disconnect() of an unknown client has returned undefined: the caller takes
\* the result
Return(t) ==
    /\ UNCHANGED <<roomVars, gameVars, codecVars, deferVars, triviaVars>>
    /\ t.pc = "done"
    /\ tasks' = Finish(tasks, t)
    /\ UNCHANGED <<enableReconnection, sessions, heap, disconnectTimers, timers>>

\* ------------------------------------------------------- handleTimeout
\* The oldest pending timer fires (all timers have the same delay, so they
\* fire in the order they were started): handleTimeout(clientId), up to the
\* awaited onTimeout hook.
TimerFire ==
    /\ UNCHANGED <<roomVars, gameVars, codecVars, deferVars, triviaVars>>
    /\ timers # <<>>
    /\ LET timer == Head(timers)
           c == timer.clientId
           session == sessions[c]
       IN /\ IF session = "none"
             THEN /\ timers' = Tail(timers)
                  /\ disconnectTimers' =
                        IF timer.mapped
                        THEN [disconnectTimers EXCEPT ![c] = "fired"]
                        ELSE disconnectTimers
                  /\ UNCHANGED tasks
             ELSE /\ timers' = Unmap(Tail(timers), c)
                  /\ disconnectTimers' = [disconnectTimers EXCEPT ![c] = "none"]
                  /\ tasks' = Spawn(tasks,
                        [Task("handleTimeout", "onTimeout", c, <<>>, session, FALSE,
                              <<Hook("onTimeout", c, session, FALSE)>>)
                           EXCEPT !.voided = timer.voided,
                                  !.ownerRemoved = (timer.owner = "removed")])
    /\ UNCHANGED <<enableReconnection, sessions, heap>>

\* onTimeout has completed: this.sessions.delete(clientId)
HandleTimeoutResume(t) ==
    /\ UNCHANGED <<roomVars, gameVars, codecVars, deferVars, triviaVars>>
    /\ t.op = "handleTimeout" /\ t.pc = "onTimeout"
    /\ DeleteSession(t.clientId)
    /\ tasks' = DetachTasks(Finish(tasks, t), t.clientId, "gone")
    /\ timers' = DetachTimers(timers, t.clientId, "gone")
    /\ UNCHANGED <<enableReconnection, disconnectTimers>>

\* ------------------------------------------------------ remove / clear
\* remove(clientId)
Remove(c) ==
    /\ UNCHANGED <<roomVars, gameVars, codecVars, deferVars, triviaVars>>
    /\ timers' = DetachTimers(ClearTimeout(timers, c), c, "removed")
    /\ disconnectTimers' = [disconnectTimers EXCEPT ![c] = "none"]
    /\ sessions' = [sessions EXCEPT ![c] = "none"]
    /\ heap' = [heap EXCEPT ![c] = NoSession]
    /\ tasks' = DetachTasks(tasks, c, "removed")
    /\ UNCHANGED enableReconnection

\* clear()
Clear ==
    /\ UNCHANGED <<roomVars, gameVars, codecVars, deferVars, triviaVars>>
    /\ timers' = [i \in 1..Len(SelectSeq(timers, LAMBDA x : ~x.mapped)) |->
          [SelectSeq(timers, LAMBDA x : ~x.mapped)[i]
              EXCEPT !.owner = DetachRef(@, "removed")]]
    /\ disconnectTimers' = [c \in ClientIds |-> "none"]
    /\ sessions' = [c \in ClientIds |-> "none"]
    /\ heap' = [c \in ClientIds |-> NoSession]
    /\ tasks' = BagOfAll(LAMBDA t : DetachTask(t, t.clientId, "removed"), tasks)
    /\ UNCHANGED enableReconnection

Next ==
    \/ \E args \in ConnectArgs : ConnectStart(args[1], args[2], args[3])
    \/ \E t \in Running : ConnectReturn(t)
    \/ \E args \in DisconnectArgs : DisconnectStart(args[1], args[2])
    \/ \E t \in Running : DisconnectResume(t)
    \/ \E t \in Running : DisconnectDelete(t)
    \/ \E t \in Running : Return(t)
    \/ TimerFire
    \/ \E t \in Running : HandleTimeoutResume(t)
    \/ \E c \in ClientIds : Remove(c)
    \/ Clear

Spec == Init /\ [][Next]_vars

TypeOK ==
    /\ enableReconnection \in BOOLEAN
    /\ \A c \in ClientIds : sessions[c] \in {"none", "a", "b"}
    /\ \A c \in ClientIds : sessions[c] = "none" => heap[c] = NoSession
    /\ \A c \in ClientIds : disconnectTimers[c] \in {"none", "pending", "fired"}
    /\ \A c \in ClientIds :
          /\ Cardinality({i \in PendingFor(c) : timers[i].mapped}) <= 1
          /\ (\E i \in PendingFor(c) : timers[i].mapped) <=> disconnectTimers[c] = "pending"
    /\ \A i \in 1..Len(timers) :
          timers[i].owner \in {"gone", "removed", sessions[timers[i].clientId]} \ {"none"}
    /\ \A t \in Running :
          t.session \in {"none", "gone", "removed", sessions[t.clientId]}
    /\ Active(tasks, timers) <= MaxActive

\* ========================================================= room adapter
\* PartyKitColyseusRoom: one handler call per envelope received, suspended
\* at the game hooks it awaits; the transport connects and disconnects.

\* envelope.id of the envelopes received
EnvelopeIds == {"m1", "m2"}
\* An envelope received: what anyUnpack makes of its data ("invalid": the
\* data is missing or is not of the expected payload type).
Envelope(id, payload) == [id |-> id, payload |-> payload]

\* What the connections send: the first one every kind of envelope (its
\* hello and its room.join twice), the second one (the other client of the
\* claims) valid ones, the third one (a bystander) its hello only.
Envelopes(sessionId, type) ==
    IF sessionId = "s1" /\ type \in {"hello", "room.join"}
    THEN {Envelope(id, "valid") : id \in EnvelopeIds} \cup {Envelope("m1", "invalid")}
    ELSE IF sessionId = "s1"
    THEN {Envelope("m1", "valid"), Envelope("m1", "invalid")}
    ELSE IF sessionId = "s2" /\ type \in {"hello", "room.join", "game.event"}
    THEN {Envelope("m1", "valid")}
    ELSE IF sessionId = "s3" /\ type = "hello"
    THEN {Envelope("m1", "valid")}
    ELSE {}

\* handler calls in flight at the same time
MaxCalls == 2

\* No context (undefined).
NoContext == [clientId |-> "none"]

\* authorizeHello of the rooms of this repository: accept, clientId is
\* client.sessionId
ClientContextOf(sessionId) == [clientId |-> sessionId]

\* PartyKitAuthResult: the results authorizeHello may resolve to
AuthResults(sessionId) ==
    {[ok |-> TRUE, context |-> ClientContextOf(sessionId),
      code |-> "", retryable |-> "undefined"]}
    \cup {[ok |-> FALSE, context |-> NoContext, code |-> "ROOM_FULL",
           retryable |-> r] : r \in IF sessionId = "s1"
                                     THEN {"undefined", "true"} ELSE {}}

\* --------------------------------------------------- PresenceTracker
\* Variant of PresenceGet that does not look at the key.
PresenceGetFirst(m, sessionId) ==
    IF m = <<>> THEN NoContext ELSE m[1].ctx

\* get(sessionId)
PresenceGet(m, sessionId) ==
    IF \E i \in 1..Len(m) : m[i].sessionId = sessionId
    THEN m[CHOOSE i \in 1..Len(m) : m[i].sessionId = sessionId].ctx
    ELSE NoContext

\* Variant of PresenceSet that stores the context under the oldest key.
PresenceSetFirst(m, sessionId, ctx) ==
    IF m = <<>>
    THEN <<[sessionId |-> sessionId, ctx |-> ctx]>>
    ELSE [m EXCEPT ![1] = [sessionId |-> m[1].sessionId, ctx |-> ctx]]

\* set(sessionId, ctx): Map.set keeps the position of a key it already holds
PresenceSet(m, sessionId, ctx) ==
    IF \E i \in 1..Len(m) : m[i].sessionId = sessionId
    THEN [i \in 1..Len(m) |->
            IF m[i].sessionId = sessionId
            THEN [sessionId |-> sessionId, ctx |-> ctx] ELSE m[i]]
    ELSE Append(m, [sessionId |-> sessionId, ctx |-> ctx])

\* Variant of PresenceDelete that keeps the entry.
PresenceDeleteNothing(m, sessionId) == m

\* delete(sessionId)
PresenceDelete(m, sessionId) ==
    SelectSeq(m, LAMBDA e : e.sessionId # sessionId)

\* list()
PresenceList(m) == [i \in 1..Len(m) |-> m[i].ctx]

\* ------------------------------------------------------------ envelopes
\* One client.send(type, envelope): recipient is the connection it is sent
\* on, to and replyTo are fields of the envelope, data its payload.
Msg(type, recipient, to, replyTo, data) ==
    [type |-> type, recipient |-> recipient, to |-> to,
     replyTo |-> replyTo, data |-> data]

\* One call of a game hook on behalf of a connection.
HookCall(name, client) ==
    [type |-> name, recipient |-> "game", to |-> "", replyTo |-> "",
     data |-> [client |-> client]]

\* sendEnvelope(client, type, payload, { replyTo })
SendEnvelope(client, type, data, replyTo) ==
    <<Msg(type, client, client, replyTo, data)>>

\* Variant of BroadcastEnvelope that ignores except.
BroadcastEnvelopeToAll(cl, type, data, except) ==
    [i \in 1..Len(cl) |-> Msg(type, cl[i], "broadcast", "", data)]

\* broadcastEnvelope(type, payload, { to: "broadcast", except }): a send to
\* each of this.clients but except ("none": no except, this.broadcast)
BroadcastEnvelope(cl, type, data, except) ==
    [i \in 1..Len(SelectSeq(cl, LAMBDA c : c # except)) |->
        Msg(type, SelectSeq(cl, LAMBDA c : c # except)[i], "broadcast", "", data)]

\* sendError(client, requestEnv, code, message, retryable)
SendError(client, env, code, retryable) ==
    SendEnvelope(client, "partykit/error",
                 [code |-> code, retryable |-> retryable], env.id)

\* Variant of HelloError that does not copy retryable.
HelloErrorAlwaysRetryable(auth) == [code |-> auth.code, retryable |-> "true"]

\* create(HelloErrorSchema, { code, retryable: auth.retryable ?? false })
HelloError(auth) ==
    [code |-> auth.code,
     retryable |-> IF auth.retryable = "undefined" THEN "false" ELSE auth.retryable]

\* create(PresenceEventSchema, { kind, client: { clientId, ... } })
PresenceEvent(kind, ctx) == [kind |-> kind, clientId |-> ctx.clientId]

\* ---------------------------------------------------------------- calls
\* const auth before authorizeHello has resolved
NoAuth == [ok |-> FALSE, context |-> NoContext, code |-> "", retryable |-> "undefined"]

\* A handler call in flight: op the handler, pc the hook it awaits ("done":
\* it has returned), client the connection, env the envelope, ctx and auth
\* its local variables, thrown whether it has caught an exception, trace the
\* sends and hook calls it made, in order.
Call(op, pc, client, env, ctx, trace) ==
    [op |-> op, pc |-> pc, client |-> client, env |-> env, ctx |-> ctx,
     auth |-> NoAuth, thrown |-> FALSE, trace |-> trace]

NoEnvelope == [id |-> "", payload |-> "valid"]
InFlight == BagToSet(calls)
IsClient(s) == \E i \in 1..Len(clients) : clients[i] = s
\* A handler that has returned is taken off at once: nothing else runs
\* between its last statement and the settling of its promise.
NoneDone == \A t \in InFlight : t.pc # "done"
CallStart(call) ==
    /\ NoneDone
    /\ BagCardinality(calls) < MaxCalls
    /\ calls' = Spawn(calls, call)
CallStep(t, next) == NoneDone /\ calls' = Step(calls, t, next)

\* ------------------------------------------------------------ transport
\* Colyseus adds the connection to this.clients and calls onJoin (which
\* awaits the empty onColyseusJoin)
OnJoin(s) ==
    /\ NoneDone
    /\ ~IsClient(s) /\ s \notin left
    /\ s = SessionOrder[Len(clients) + Cardinality(left) + 1]
    /\ clients' = Append(clients, s)
    /\ UNCHANGED <<left, ctxBySessionId, connState, calls, tick>>
    /\ UNCHANGED <<vars, gameVars, codecVars, deferVars, triviaVars>>

\* Colyseus removes the connection from this.clients and calls onLeave:
\* presenceTracker.onLeave(client), a broadcast of the LEAVE event if there
\* is one, then the awaited onColyseusLeave
OnLeave(s) ==
    /\ IsClient(s)
    /\ clients' = SelectSeq(clients, LAMBDA c : c # s)
    /\ left' = left \cup {s}
    /\ LET ctx == PresenceGet(ctxBySessionId, s)
       IN IF ctx = NoContext
          THEN /\ CallStart(Call("onLeave", "onColyseusLeave", s, NoEnvelope, ctx, << >>))
               /\ UNCHANGED ctxBySessionId
          ELSE /\ ctxBySessionId' = PresenceDelete(ctxBySessionId, s)
               /\ CallStart(Call("onLeave", "onColyseusLeave", s, NoEnvelope, ctx,
                     BroadcastEnvelope(clients', "partykit/presence",
                                       PresenceEvent("LEAVE", ctx), "none")))
    /\ UNCHANGED <<connState, tick>>
    /\ UNCHANGED <<vars, gameVars, codecVars, deferVars, triviaVars>>

\* ---------------------------------------------------------------- hello
\* handleHello, up to the awaited authorizeHello
HandleHello(s, env) ==
    /\ IsClient(s)
    /\ IF env.payload = "invalid"
       THEN CallStart(Call("handleHello", "done", s, env, NoContext, << >>))
       ELSE CallStart(Call("handleHello", "authorizeHello", s, env, NoContext,
                           <<HookCall("authorizeHello", s)>>))
    /\ UNCHANGED <<clients, left, ctxBySessionId, connState, tick>>
    /\ UNCHANGED <<vars, gameVars, codecVars, deferVars, triviaVars>>

\* authorizeHello has resolved to auth: reply hello.error, or record the
\* context and reply hello.ok
HelloResume(t, auth) ==
    /\ t.op = "handleHello" /\ t.pc = "authorizeHello"
    /\ IF ~auth.ok
       THEN /\ CallStep(t, [t EXCEPT !.pc = "done", !.auth = auth,
                     !.trace = @ \o SendEnvelope(t.client, "partykit/hello/error",
                                                 HelloError(auth), t.env.id)])
            /\ UNCHANGED <<ctxBySessionId, connState>>
       ELSE /\ ctxBySessionId' = PresenceSet(ctxBySessionId, t.client, auth.context)
            /\ CallStep(t, [t EXCEPT !.pc = "done", !.auth = auth,
                     !.trace = @ \o SendEnvelope(t.client, "partykit/hello/ok",
                                                 auth.context, t.env.id)])
            /\ connState' = [connState EXCEPT ![t.client] =
                                IF @ = "JOINED" THEN @ ELSE "AUTHENTICATED"]
    /\ UNCHANGED <<clients, left, tick>>
    /\ UNCHANGED <<vars, gameVars, codecVars, deferVars, triviaVars>>

\* ------------------------------------------------------------ room.join
\* for (const existing of this.presenceTracker.list()): one JOIN event to
\* the joining client for each context with another clientId
CatchUpIncludingSelf(m, client, ctx) ==
    [i \in 1..Len(PresenceList(m)) |->
        Msg("partykit/presence", client, client, "",
            PresenceEvent("JOIN", PresenceList(m)[i]))]

CatchUp(m, client, ctx) ==
    [i \in 1..Len(SelectSeq(PresenceList(m), LAMBDA e : e.clientId # ctx.clientId)) |->
        Msg("partykit/presence", client, client, "",
            PresenceEvent("JOIN",
               SelectSeq(PresenceList(m), LAMBDA e : e.clientId # ctx.clientId)[i]))]

\* What handleRoomJoin sends before its first await: room.joined, self, the
\* catch-up events, the broadcast of the JOIN event.
JoinBurstBroadcastFirst(client, env, ctx) ==
    BroadcastEnvelope(clients, "partykit/presence", PresenceEvent("JOIN", ctx), client)
        \o SendEnvelope(client, "partykit/room/joined", [room |-> "room"], env.id)
        \o SendEnvelope(client, "partykit/self", ctx, "")
        \o CatchUp(ctxBySessionId, client, ctx)

JoinBurst(client, env, ctx) ==
    SendEnvelope(client, "partykit/room/joined", [room |-> "room"], env.id)
        \o SendEnvelope(client, "partykit/self", ctx, "")
        \o CatchUp(ctxBySessionId, client, ctx)
        \o BroadcastEnvelope(clients, "partykit/presence", PresenceEvent("JOIN", ctx), client)

\* handleRoomJoin, up to the awaited getStateSnapshot of sendStateSnapshotTo
HandleRoomJoin(s, env) ==
    /\ IsClient(s)
    /\ LET ctx == PresenceGet(ctxBySessionId, s)
       IN IF env.payload = "invalid"
          THEN /\ CallStart(Call("handleRoomJoin", "done", s, env, NoContext, << >>))
               /\ UNCHANGED <<ctxBySessionId, connState>>
          ELSE IF ctx = NoContext
          THEN /\ CallStart(Call("handleRoomJoin", "done", s, env, ctx,
                                 SendError(s, env, "UNAUTHORIZED", "false")))
               /\ UNCHANGED <<ctxBySessionId, connState>>
          ELSE /\ CallStart(Call("handleRoomJoin", "getStateSnapshot", s, env, ctx,
                                 JoinBurst(s, env, ctx)
                                    \o <<HookCall("getStateSnapshot", s)>>))
               /\ ctxBySessionId' = PresenceSet(ctxBySessionId, s, ctx)
               /\ connState' = [connState EXCEPT ![s] = "JOINED"]
    /\ UNCHANGED <<clients, left, tick>>
    /\ UNCHANGED <<vars, gameVars, codecVars, deferVars, triviaVars>>

\* the most snapshot emissions of one behaviour
MaxTick == 2

\* create(StateUpdateSchema, { kind: SNAPSHOT, tick: BigInt(this.tick), state })
StateUpdate(n) == [kind |-> "SNAPSHOT", tick |-> n]

\* sendStateSnapshotTo after getStateSnapshot has resolved: this.tick++ and
\* the state envelope; handleRoomJoin goes on to the awaited onPartyKitJoin
SnapshotResume(t) ==
    /\ t.op \in {"handleRoomJoin", "handleStateRequest"}
    /\ t.pc = "getStateSnapshot"
    /\ tick < MaxTick
    /\ tick' = tick + 1
    /\ IF t.op = "handleRoomJoin"
       THEN CallStep(t, [t EXCEPT !.pc = "onPartyKitJoin",
                !.trace = @ \o SendEnvelope(t.client, "partykit/state",
                                            StateUpdate(tick'), "")
                            \o <<HookCall("onPartyKitJoin", t.client)>>])
       ELSE CallStep(t, [t EXCEPT !.pc = "done",
                !.trace = @ \o SendEnvelope(t.client, "partykit/state",
                                            StateUpdate(tick'), t.env.id)])
    /\ UNCHANGED <<clients, left, ctxBySessionId, connState>>
    /\ UNCHANGED <<vars, gameVars, codecVars, deferVars, triviaVars>>

\* TriviaRoom.broadcastStateUpdate, called by the game (its hooks and its
\* timers) and not awaited: this.tick++, up to the awaited getStateSnapshot
BroadcastStateUpdate ==
    /\ tick < MaxTick
    /\ tick' = tick + 1
    /\ CallStart(Call("broadcastStateUpdate", "getStateSnapshot", "game",
                      NoEnvelope, NoContext, <<HookCall("getStateSnapshot", "game")>>))
    /\ UNCHANGED <<clients, left, ctxBySessionId, connState>>
    /\ UNCHANGED <<vars, gameVars, codecVars, deferVars, triviaVars>>

\* broadcastStateUpdate after getStateSnapshot has resolved: the state
\* envelope with this.tick as it is now, to every connection
BroadcastResume(t) ==
    /\ t.op = "broadcastStateUpdate" /\ t.pc = "getStateSnapshot"
    /\ CallStep(t, [t EXCEPT !.pc = "done",
             !.trace = @ \o BroadcastEnvelope(clients, "partykit/state",
                                              StateUpdate(tick), "none")])
    /\ UNCHANGED <<clients, left, ctxBySessionId, connState, tick>>
    /\ UNCHANGED <<vars, gameVars, codecVars, deferVars, triviaVars>>

\* -------------------------------------------------------- state.request
\* handleStateRequest, up to the awaited getStateSnapshot
HandleStateRequest(s, env) ==
    /\ IsClient(s)
    /\ LET ctx == PresenceGet(ctxBySessionId, s)
       IN IF env.payload = "invalid"
          THEN CallStart(Call("handleStateRequest", "done", s, env, NoContext, << >>))
          ELSE IF ctx = NoContext
          THEN CallStart(Call("handleStateRequest", "done", s, env, ctx,
                              SendError(s, env, "UNAUTHORIZED", "false")))
          ELSE CallStart(Call("handleStateRequest", "getStateSnapshot", s, env, ctx,
                              <<HookCall("getStateSnapshot", s)>>))
    /\ UNCHANGED <<clients, left, ctxBySessionId, connState, tick>>
    /\ UNCHANGED <<vars, gameVars, codecVars, deferVars, triviaVars>>

\* ----------------------------------------------------------- game.event
\* handleGameEvent, up to the awaited onPartyKitGameEvent
HandleGameEvent(s, env) ==
    /\ IsClient(s)
    /\ LET ctx == PresenceGet(ctxBySessionId, s)
       IN IF env.payload = "invalid"
          THEN CallStart(Call("handleGameEvent", "done", s, env, NoContext, << >>))
          ELSE IF ctx = NoContext
          THEN CallStart(Call("handleGameEvent", "done", s, env, ctx,
                              SendError(s, env, "UNAUTHORIZED", "false")))
          ELSE CallStart(Call("handleGameEvent", "onPartyKitGameEvent", s, env, ctx,
                              <<HookCall("onPartyKitGameEvent", s)>>))
    /\ UNCHANGED <<clients, left, ctxBySessionId, connState, tick>>
    /\ UNCHANGED <<vars, gameVars, codecVars, deferVars, triviaVars>>

\* Variant of GameEventResume that tells every connection of the error.
GameEventResumeToAll(t, thrown) ==
    /\ t.op = "handleGameEvent" /\ t.pc = "onPartyKitGameEvent"
    /\ IF thrown
       THEN CallStep(t, [t EXCEPT !.pc = "done", !.thrown = TRUE,
                !.trace = @ \o BroadcastEnvelope(clients, "partykit/error",
                                   [code |-> "INTERNAL", retryable |-> "true"], "none")])
       ELSE CallStep(t, [t EXCEPT !.pc = "done"])
    /\ UNCHANGED <<clients, left, ctxBySessionId, connState, tick>>
    /\ UNCHANGED <<vars, gameVars, codecVars, deferVars, triviaVars>>

\* onPartyKitGameEvent has resolved, or has thrown: catch (e) sendError INTERNAL
GameEventResume(t, thrown) ==
    /\ t.op = "handleGameEvent" /\ t.pc = "onPartyKitGameEvent"
    /\ IF thrown
       THEN CallStep(t, [t EXCEPT !.pc = "done", !.thrown = TRUE,
                !.trace = @ \o SendError(t.client, t.env, "INTERNAL", "true")])
       ELSE CallStep(t, [t EXCEPT !.pc = "done"])
    /\ UNCHANGED <<clients, left, ctxBySessionId, connState, tick>>
    /\ UNCHANGED <<vars, gameVars, codecVars, deferVars, triviaVars>>

\* ----------------------------------------------------------------- ping
\* handlePing: no await
HandlePing(s, env) ==
    /\ IsClient(s)
    /\ IF env.payload = "invalid"
       THEN CallStart(Call("handlePing", "done", s, env, NoContext, << >>))
       ELSE CallStart(Call("handlePing", "done", s, env, NoContext,
                           SendEnvelope(s, "partykit/pong", [serverTime |-> "now"],
                                        env.id)))
    /\ UNCHANGED <<clients, left, ctxBySessionId, connState, tick>>
    /\ UNCHANGED <<vars, gameVars, codecVars, deferVars, triviaVars>>

\* The handler has returned (its last awaited hook, if any, has resolved).
HandlerReturn(t) ==
    /\ t.pc = "done" \/ (NoneDone /\ t.pc \in {"onPartyKitJoin", "onColyseusLeave"})
    /\ calls' = Finish(calls, t)
    /\ UNCHANGED <<clients, left, ctxBySessionId, connState, tick>>
    /\ UNCHANGED <<vars, gameVars, codecVars, deferVars, triviaVars>>

RoomNext ==
    \/ \E s \in SessionIds : OnJoin(s)
    \/ \E s \in Leavers : OnLeave(s)
    \/ \E s \in SessionIds : \E env \in Envelopes(s, "hello") : HandleHello(s, env)
    \/ \E t \in InFlight : \E auth \in AuthResults(t.client) : HelloResume(t, auth)
    \/ \E s \in SessionIds : \E env \in Envelopes(s, "room.join") : HandleRoomJoin(s, env)
    \/ \E t \in InFlight : SnapshotResume(t)
    \/ \E s \in SessionIds : \E env \in Envelopes(s, "state.request") : HandleStateRequest(s, env)
    \/ \E s \in SessionIds : \E env \in Envelopes(s, "game.event") : HandleGameEvent(s, env)
    \/ \E t \in InFlight : \E thrown \in BOOLEAN : GameEventResume(t, thrown)
    \/ \E s \in SessionIds : \E env \in Envelopes(s, "ping") : HandlePing(s, env)
    \/ BroadcastStateUpdate
    \/ \E t \in InFlight : BroadcastResume(t)
    \/ \E t \in InFlight : HandlerReturn(t)

\* The room alone: the session manager stays as constructed.
RoomSpecInit == Init /\ enableReconnection

RoomSpec == RoomSpecInit /\ [][RoomNext]_roomVars

RoomTypeOK ==
    /\ \A i, j \in 1..Len(clients) : clients[i] = clients[j] => i = j
    /\ \A i \in 1..Len(clients) : clients[i] \in SessionIds \ left
    /\ \A i, j \in 1..Len(ctxBySessionId) :
          ctxBySessionId[i].sessionId = ctxBySessionId[j].sessionId => i = j
    /\ \A s \in SessionIds :
          connState[s] \in {"UNAUTHENTICATED", "AUTHENTICATED", "JOINED"}
    /\ \A s \in SessionIds :
          IsClient(s) =>
             (connState[s] = "UNAUTHENTICATED"
                 <=> PresenceGet(ctxBySessionId, s) = NoContext)
    /\ BagCardinality(calls) <= MaxCalls
    /\ tick \in 0..MaxTick


\* =========================================================== trivia game
\* TriviaRoom: the game's hooks, called by the adapter's handlers. The hooks
\* await nothing, so a handler runs to its end before the next one starts.

\* hello.client.kind ("undefined": hello.client is missing) and
\* hello.client.name of the hello claims
Kinds == {"undefined", "DISPLAY", "CONTROLLER"}
Names == {"undefined", "Ann"}
Hellos == [kind : Kinds, name : Names]

\* the names of the game events sent
EventNames == {"start_game", "other"}

\* authorizeHello(client, hello): accepts everyone; the role and the
\* capabilities follow from the declared kind
AuthorizeHello(sessionId, hello) ==
    LET kind == IF hello.kind = "undefined" THEN "CONTROLLER" ELSE hello.kind
        isHost == kind = "DISPLAY"
    IN [ok |-> TRUE,
        context |->
          [clientId |-> sessionId,
           kind |-> kind,
           displayName |-> IF hello.name = "undefined" THEN "" ELSE hello.name,
           role |-> IF isHost THEN "HOST" ELSE "PLAYER",
           capabilities |-> IF isHost
                            THEN {"CanStartGame", "CanAdvanceRound", "CanRevealAnswers"}
                            ELSE {},
           groups |-> {IF kind = "DISPLAY" THEN "host" ELSE "player"}]]

\* onPartyKitJoin(client, ctx, join): ctx.role === "player" compares the
\* Role enum with a string
OnPartyKitJoin(state, ctx) ==
    IF ctx.role = "player"
    THEN [state EXCEPT !.players[ctx.clientId] =
             IF ctx.displayName = "" THEN "Player" ELSE ctx.displayName]
    ELSE state

\* Variant of OnPartyKitGameEvent without the capability check.
OnPartyKitGameEventUnchecked(state, ctx, name) ==
    IF name = "start_game"
    THEN [thrown |-> FALSE, state |-> [state EXCEPT !.phase = "question"]]
    ELSE [thrown |-> FALSE, state |-> state]

\* onPartyKitGameEvent(client, ctx, ev): the state after it and whether it
\* threw
OnPartyKitGameEvent(state, ctx, name) ==
    IF name = "start_game"
    THEN IF "CanStartGame" \notin ctx.capabilities
         THEN [thrown |-> TRUE, state |-> state]
         ELSE [thrown |-> FALSE, state |-> [state EXCEPT !.phase = "question"]]
    ELSE [thrown |-> FALSE, state |-> state]

\* the envelope of every request of the game's clients
GameEnvelope == Envelope("m1", "valid")

\* handleHello with the game's authorizeHello
GameHello(s, hello) ==
    /\ gameHello' = [gameHello EXCEPT ![s] = hello]
    /\ gameCtx' = [gameCtx EXCEPT ![s] = AuthorizeHello(s, hello).context]
    /\ handled' = [client |-> s, type |-> "hello", name |-> "",
                   sent |-> SendEnvelope(s, "partykit/hello/ok",
                                         [clientId |-> s], GameEnvelope.id)]
    /\ UNCHANGED <<gameJoined, pkState>>
    /\ UNCHANGED <<vars, roomVars, codecVars, deferVars, triviaVars>>

\* handleRoomJoin with the game's onPartyKitJoin
GameJoin(s) ==
    /\ gameCtx[s] # NoGameContext
    /\ gameJoined' = gameJoined \cup {s}
    /\ pkState' = OnPartyKitJoin(pkState, gameCtx[s])
    /\ handled' = [client |-> s, type |-> "room.join", name |-> "",
                   sent |-> SendEnvelope(s, "partykit/room/joined",
                                         [room |-> "room"], GameEnvelope.id)]
    /\ UNCHANGED <<gameHello, gameCtx>>
    /\ UNCHANGED <<vars, roomVars, codecVars, deferVars, triviaVars>>

\* handleGameEvent with the game's onPartyKitGameEvent
GameEvent(s, name) ==
    /\ IF gameCtx[s] = NoGameContext
       THEN /\ handled' = [client |-> s, type |-> "game.event", name |-> name,
                           sent |-> SendError(s, GameEnvelope, "UNAUTHORIZED", "false")]
            /\ UNCHANGED pkState
       ELSE LET r == OnPartyKitGameEvent(pkState, gameCtx[s], name)
            IN /\ pkState' = r.state
               /\ handled' = [client |-> s, type |-> "game.event", name |-> name,
                              sent |-> IF r.thrown
                                       THEN SendError(s, GameEnvelope, "INTERNAL", "true")
                                       ELSE << >>]
    /\ UNCHANGED <<gameHello, gameCtx, gameJoined>>
    /\ UNCHANGED <<vars, roomVars, codecVars, deferVars, triviaVars>>

GameNext ==
    \/ \E s \in SessionIds : \E hello \in Hellos : GameHello(s, hello)
    \/ \E s \in SessionIds : GameJoin(s)
    \/ \E s \in SessionIds : \E name \in EventNames : GameEvent(s, name)

\* The game alone: the session manager and the room stay as constructed.
GameSpec == RoomSpecInit /\ [][GameNext]_gameVars

GameTypeOK ==
    /\ \A s \in SessionIds :
          /\ gameHello[s] \in Hellos \cup {NoHello}
          /\ gameCtx[s] = IF gameHello[s] = NoHello THEN NoGameContext
                          ELSE AuthorizeHello(s, gameHello[s]).context
    /\ gameJoined \subseteq {s \in SessionIds : gameCtx[s] # NoGameContext}
    /\ pkState.phase \in {"lobby", "question"}


\* ======================================================== envelope codec
\* EnvelopeBuilder over ProtoJSONCodec or ProtoBinaryCodec. A message is
\* its field values; the codecs write the proto3 encodings: a field that
\* holds its default value is left out and comes back as the default, and
\* the JSON form of an Any needs the type of its content in the registry.

\* defaultRegistry
DefaultRegistry ==
    {"Hello", "HelloOk", "RoomJoin", "RoomJoined", "RoomInfo", "GameEvent",
     "PresenceEvent", "Self", "Error", "Ping", "Pong", "StateRequest",
     "StateUpdate", "Envelope"}

\* the payload types encoded: two registered ones and one that is not
PayloadTypes == {"Hello", "GameEvent", "Custom"}
\* a payload: its $typeName and its content ("": every field at its default)
Payloads == [typeName : PayloadTypes, value : {"", "p1"}]

\* EnvelopeOptions / SimpleEnvelopeOptions; "undefined" and << >> are the
\* options left out
EncodeOptions ==
    [type : {"partykit/hello"}, data : Payloads, explicitSchema : BOOLEAN,
     to : {"server", ""}, room : {"undefined", "r1"}, from : {"undefined", "c1"},
     id : {"undefined", "m1"}, replyTo : {"undefined", "m0"},
     version : {<< >>, <<0>>, <<2>>}]

Codecs == {"json", "binary"}

\* the fields of Envelope, in the order of create(EnvelopeSchema, ...)
EnvelopeFields == <<"v", "t", "id", "replyTo", "ts", "room", "from", "to", "data">>
FieldSet == {EnvelopeFields[i] : i \in 1..Len(EnvelopeFields)}

\* the proto3 default of each field
DefaultOf ==
    [v |-> 0, t |-> "", id |-> "", replyTo |-> "", ts |-> 0, room |-> "",
     from |-> "", to |-> "", data |-> NoAny]

\* anyPack(schema, message)
AnyPack(schema, data) == [typeUrl |-> schema, value |-> data.value]

\* anyUnpack(any, schema): undefined unless the Any holds a message of schema
AnyUnpack(any, schema) ==
    IF any.typeUrl = schema
    THEN [null |-> FALSE, data |-> [typeName |-> schema, value |-> any.value]]
    ELSE [null |-> TRUE, data |-> [typeName |-> "", value |-> ""]]

Or(x, default) == IF x = "undefined" THEN default ELSE x

\* create(EnvelopeSchema, { v: options.version ?? 1, ... }); Date.now() is 7
\* and generateMessageId() gives "generated"
CreateEnvelope(o, schema) ==
    [v |-> IF o.version = << >> THEN 1 ELSE o.version[1],
     t |-> o.type,
     id |-> Or(o.id, "generated"),
     replyTo |-> Or(o.replyTo, ""),
     ts |-> 7,
     room |-> Or(o.room, ""),
     from |-> Or(o.from, ""),
     to |-> o.to,
     data |-> AnyPack(schema, o.data)]

\* toJson(EnvelopeSchema, envelope, { registry }): throws when the type of
\* the Any is not in the registry; int64 is written as a string
ToJson(e, registry) ==
    IF e.data # NoAny /\ e.data.typeUrl \notin registry
    THEN [ok |-> FALSE, value |-> << >>]
    ELSE [ok |-> TRUE,
          value |-> [k \in {f \in FieldSet : e[f] # DefaultOf[f]} |->
                       IF k = "ts" THEN [int64 |-> e[k]] ELSE e[k]]]

\* Variant of FromJson that takes a missing version for version 1.
FromJsonVersionOne(j, registry) ==
    [k \in FieldSet |->
        IF k \in DOMAIN j
        THEN IF k = "ts" THEN j[k].int64 ELSE j[k]
        ELSE IF k = "v" THEN 1 ELSE DefaultOf[k]]

\* fromJson(EnvelopeSchema, encoded, { registry })
FromJson(j, registry) ==
    [k \in FieldSet |->
        IF k \in DOMAIN j
        THEN IF k = "ts" THEN j[k].int64 ELSE j[k]
        ELSE DefaultOf[k]]

\* toBinary(EnvelopeSchema, envelope): the fields that are set, in order
ToBinary(e) ==
    [ok |-> TRUE,
     value |-> LET set == SelectSeq(EnvelopeFields, LAMBDA f : e[f] # DefaultOf[f])
               IN [i \in 1..Len(set) |-> [field |-> set[i], value |-> e[set[i]]]]]

\* fromBinary(EnvelopeSchema, encoded)
FromBinary(b) ==
    [k \in FieldSet |->
        IF \E i \in 1..Len(b) : b[i].field = k
        THEN b[CHOOSE i \in 1..Len(b) : b[i].field = k].value
        ELSE DefaultOf[k]]

\* EnvelopeBuilder.encode(options): the schema given or looked up in the
\* registry by $typeName (throws when it is not there), create, codec.encode
LookupFails(o) == ~o.explicitSchema /\ o.data.typeName \notin DefaultRegistry

Encode(codec, o) ==
    IF LookupFails(o)
    THEN [ok |-> FALSE, value |-> << >>]
    ELSE IF codec = "json"
    THEN ToJson(CreateEnvelope(o, o.data.typeName), DefaultRegistry)
    ELSE ToBinary(CreateEnvelope(o, o.data.typeName))

\* EnvelopeBuilder.decode(encoded)
Decode(codec, encoded) ==
    IF codec = "json" THEN FromJson(encoded, DefaultRegistry) ELSE FromBinary(encoded)

\* EnvelopeBuilder.decodeAndUnpack(encoded, dataSchema): null when the
\* envelope has no data or the data is not of the schema
DecodeAndUnpack(codec, encoded, schema) ==
    LET envelope == Decode(codec, encoded)
        unpacked == AnyUnpack(envelope.data, schema)
    IN IF envelope.data = NoAny \/ unpacked.null
       THEN [done |-> TRUE, null |-> TRUE, data |-> NoAny, envelope |-> << >>]
       ELSE [done |-> TRUE, null |-> FALSE, data |-> unpacked.data,
             envelope |-> envelope]

\* encode is called, once
CodecEncode(codec, o) ==
    /\ codecIn = NoOptions
    /\ codecIn' = [codec |-> codec, options |-> o]
    /\ codecEnv' = IF LookupFails(o) THEN << >>
                   ELSE CreateEnvelope(o, o.data.typeName)
    /\ wire' = Encode(codec, o)
    /\ codecOut' = NoResult
    /\ UNCHANGED <<vars, roomVars, gameVars, deferVars, triviaVars>>

\* the receiver calls decodeAndUnpack with the schema of the payload sent
CodecDecode ==
    /\ wire.ok /\ ~codecOut.done
    /\ codecOut' = DecodeAndUnpack(codecIn.codec, wire.value,
                                   codecIn.options.data.typeName)
    /\ UNCHANGED <<codecIn, codecEnv, wire>>
    /\ UNCHANGED <<vars, roomVars, gameVars, deferVars, triviaVars>>

CodecNext ==
    \/ \E codec \in Codecs : \E o \in EncodeOptions : CodecEncode(codec, o)
    \/ CodecDecode

\* The codec alone.
CodecSpec == RoomSpecInit /\ [][CodecNext]_codecVars

CodecTypeOK ==
    /\ codecIn = NoOptions \/ (codecIn.codec \in Codecs /\ codecIn.options \in EncodeOptions)
    /\ wire.ok \in BOOLEAN
    /\ codecOut.done => wire.ok

\* ------------------------------------------- ColyseusSessionManager
\* The most calls in flight and pending timers of the manager at a time.
MaxWrapped == 2

\* A call in flight: pc is the await it is suspended at ("reject": the
\* wrapped onTimeout hook awaits deferredClient.reject()).
WrappedCall(op, pc, clientId) == [op |-> op, pc |-> pc, clientId |-> clientId]

Wrapping == BagToSet(wrapped)

\* getDeferredClient(clientId)
GetDeferredClient(c) == deferredClients[c]

\* wrappedHooks.onConnected, up to the awaited hook of the options:
\* if (isReconnect) this.deferredClients.delete(clientId)
WrappedOnConnected(c, isReconnect) ==
    IF isReconnect
    THEN [deferredClients EXCEPT ![c] = "none"]
    ELSE deferredClients

\* wrappedHooks.onTimeout, up to its first await: with a deferred client
\* stored it calls deferredClient.reject() and awaits the result, without
\* one it calls the onTimeout hook of the options and awaits that
WrappedOnTimeout(rest, op, c) ==
    LET deferredClient == deferredClients[c]
    IN IF deferredClient # "none"
       THEN /\ rejections' = [rejections EXCEPT ![deferredClient] = @ + 1]
            /\ wrapped' = Spawn(rest, WrappedCall(op, "reject", c))
       ELSE /\ wrapped' = Spawn(rest, WrappedCall(op, "onTimeout", c))
            /\ UNCHANGED rejections

\* connect(clientId, ...), up to the awaited onConnected hook of the options
ManagerConnect(c) ==
    /\ UNCHANGED <<vars, roomVars, gameVars, codecVars, triviaVars>>
    /\ BagCardinality(wrapped) + Len(graceTimers) < MaxWrapped
    /\ LET isReconnect == enableReconnection /\ managed[c] # "none"
       IN /\ graceTimers' = IF isReconnect THEN ClearTimeout(graceTimers, c)
                                            ELSE graceTimers
          /\ deferredClients' = WrappedOnConnected(c, isReconnect)
    /\ managed' = [managed EXCEPT ![c] = "connected"]
    /\ wrapped' = Spawn(wrapped, WrappedCall("connect", "onConnected", c))
    /\ UNCHANGED <<rejections, issued>>

\* the onConnected hook of the options has completed: connect returns
ManagerConnectReturn(t) ==
    /\ UNCHANGED <<vars, roomVars, gameVars, codecVars, triviaVars>>
    /\ t.op = "connect" /\ t.pc = "onConnected"
    /\ wrapped' = Finish(wrapped, t)
    /\ UNCHANGED <<managed, graceTimers, deferredClients, rejections, issued>>

\* disconnect(clientId) of a client with a session, up to the awaited
\* onDisconnected hook
ManagerDisconnect(c) ==
    /\ UNCHANGED <<vars, roomVars, gameVars, codecVars, triviaVars>>
    /\ BagCardinality(wrapped) + Len(graceTimers) < MaxWrapped
    /\ managed[c] # "none"
    /\ managed' = [managed EXCEPT ![c] = "disconnected"]
    /\ wrapped' = Spawn(wrapped, WrappedCall("disconnect", "onDisconnected", c))
    /\ UNCHANGED <<graceTimers, deferredClients, rejections, issued>>

\* onDisconnected has completed: start the grace timer and return, or call
\* the wrapped onTimeout hook at once
ManagerDisconnectResume(t) ==
    /\ UNCHANGED <<vars, roomVars, gameVars, codecVars, triviaVars>>
    /\ t.op = "disconnect" /\ t.pc = "onDisconnected"
    /\ IF StartsTimer
       THEN /\ graceTimers' = Append(Unmap(graceTimers, t.clientId),
                  [clientId |-> t.clientId, mapped |-> TRUE])
            /\ wrapped' = Finish(wrapped, t)
            /\ UNCHANGED rejections
       ELSE /\ WrappedOnTimeout(Finish(wrapped, t), "disconnect", t.clientId)
            /\ UNCHANGED graceTimers
    /\ UNCHANGED <<managed, deferredClients, issued>>

\* The oldest pending timer fires: handleTimeout(clientId), up to the first
\* await of the wrapped onTimeout hook. A timer callback is a task of its
\* own: it does not run between deferredClient.reject() and the resumption
\* of the hook that awaits its result, which is one microtask later.
ManagerTimerFire ==
    /\ UNCHANGED <<vars, roomVars, gameVars, codecVars, triviaVars>>
    /\ graceTimers # <<>>
    /\ \A t \in Wrapping : t.pc # "reject"
    /\ LET c == Head(graceTimers).clientId
       IN IF managed[c] = "none"
          THEN /\ graceTimers' = Tail(graceTimers)
               /\ UNCHANGED <<wrapped, rejections>>
          ELSE /\ graceTimers' = Unmap(Tail(graceTimers), c)
               /\ WrappedOnTimeout(wrapped, "handleTimeout", c)
    /\ UNCHANGED <<managed, deferredClients, issued>>

\* deferredClient.reject() has been awaited:
\* this.deferredClients.delete(clientId), then the onTimeout hook of the
\* options is called and awaited
WrappedOnTimeoutResume(t) ==
    /\ UNCHANGED <<vars, roomVars, gameVars, codecVars, triviaVars>>
    /\ t.pc = "reject"
    /\ deferredClients' = [deferredClients EXCEPT ![t.clientId] = "none"]
    /\ wrapped' = Step(wrapped, t, [t EXCEPT !.pc = "onTimeout"])
    /\ UNCHANGED <<managed, graceTimers, rejections, issued>>

\* the wrapped onTimeout hook has completed: this.sessions.delete(clientId)
ManagerTimeoutResume(t) ==
    /\ UNCHANGED <<vars, roomVars, gameVars, codecVars, triviaVars>>
    /\ t.pc = "onTimeout"
    /\ managed' = [managed EXCEPT ![t.clientId] = "none"]
    /\ wrapped' = Finish(wrapped, t)
    /\ UNCHANGED <<graceTimers, deferredClients, rejections, issued>>

\* remove(clientId), inherited: the deferred clients are not touched
ManagerRemove(c) ==
    /\ UNCHANGED <<vars, roomVars, gameVars, codecVars, triviaVars>>
    /\ managed[c] # "none"
    /\ graceTimers' = ClearTimeout(graceTimers, c)
    /\ managed' = [managed EXCEPT ![c] = "none"]
    /\ UNCHANGED <<deferredClients, rejections, issued, wrapped>>

\* setDeferredClient(clientId, deferredClient) with a deferred client that
\* allowReconnection has just made
SetDeferredClient(c, deferredClient) ==
    /\ UNCHANGED <<vars, roomVars, gameVars, codecVars, triviaVars>>
    /\ deferredClient \notin issued
    /\ deferredClients' = [deferredClients EXCEPT ![c] = deferredClient]
    /\ issued' = issued \cup {deferredClient}
    /\ UNCHANGED <<managed, graceTimers, rejections, wrapped>>

\* clearDeferredClient(clientId)
ClearDeferredClient(c) ==
    /\ UNCHANGED <<vars, roomVars, gameVars, codecVars, triviaVars>>
    /\ deferredClients[c] # "none"
    /\ deferredClients' = [deferredClients EXCEPT ![c] = "none"]
    /\ UNCHANGED <<managed, graceTimers, rejections, issued, wrapped>>

DeferNext ==
    \/ \E c \in ClientIds : ManagerConnect(c)
    \/ \E t \in Wrapping : ManagerConnectReturn(t)
    \/ \E c \in ClientIds : ManagerDisconnect(c)
    \/ \E t \in Wrapping : ManagerDisconnectResume(t)
    \/ ManagerTimerFire
    \/ \E t \in Wrapping : WrappedOnTimeoutResume(t)
    \/ \E t \in Wrapping : ManagerTimeoutResume(t)
    \/ \E c \in ClientIds : ManagerRemove(c)
    \/ \E c \in ClientIds : \E d \in Deferreds : SetDeferredClient(c, d)
    \/ \E c \in ClientIds : ClearDeferredClient(c)

\* The session manager of the Colyseus rooms alone, with reconnection
\* enabled or disabled.
DeferSpec == Init /\ [][DeferNext]_deferVars

DeferTypeOK ==
    /\ managed \in [ClientIds -> {"none", "connected", "disconnected"}]
    /\ deferredClients \in [ClientIds -> Deferreds \cup {"none"}]
    /\ \A d \in Deferreds : rejections[d] \in 0..MaxWrapped
    /\ issued \subseteq Deferreds
    /\ BagCardinality(wrapped) + Len(graceTimers) <= MaxWrapped
    /\ \A c \in ClientIds : deferredClients[c] # "none" => deferredClients[c] \in issued

\* ------------------------------------------------- TriviaRoom (reconnection)
\* The questions of a game: getShuffledQuestions().length.
QuestionCount == 1

\* The most answers of one player to one question that are followed.
MaxAnswers == 2

\* What a submit_answer event carries: the index of the correct option, of
\* another option, or an index outside 0..3.
Answers == {"correct", "wrong", "invalid"}

\* The connections that send game events: the players and the host display.
TriviaSenders == ClientIds \cup {"host"}

\* The context authorizeHello gave the connection.
TriviaContext(s) ==
    AuthorizeHello(s, [kind |-> IF s = "host" THEN "DISPLAY" ELSE "CONTROLLER",
                       name |-> "undefined"]).context

\* The room: pkState, the two timers and the history of the question.
TriviaRoom ==
    [pk |-> triviaState, questionTimer |-> questionTimer,
     advanceTimer |-> advanceTimer, answered |-> answered]

\* Object.keys(pkState.players), in insertion order
PlayerIds(pk) == pk.order

\* array.filter((id) => id !== clientId)
Without(ids, c) == SelectSeq(ids, LAMBDA id : id # c)

\* setTimeout assigned to the handle: a timer the handle referred to stays
\* pending without a handle
SetTimer(t) ==
    [mapped |-> TRUE, leaked |-> t.leaked + (IF t.mapped THEN 1 ELSE 0)]

\* if (handle) { clearTimeout(handle); handle = undefined }
ClearTimer(t) == [t EXCEPT !.mapped = FALSE]

\* clearQuestionTimer()
ClearQuestionTimer(r) == [r EXCEPT !.questionTimer = ClearTimer(@)]

\* clearAdvanceTimer()
ClearAdvanceTimer(r) == [r EXCEPT !.advanceTimer = ClearTimer(@)]

\* startQuestionTimer()
StartQuestionTimer(r) ==
    [ClearQuestionTimer(r) EXCEPT !.questionTimer = SetTimer(@)]

\* getActivePlayers()
GetActivePlayers(pk) ==
    SelectSeq(PlayerIds(pk), LAMBDA c : pk.players[c].isConnected)

\* resumeGame()
ResumeGame(r) ==
    LET previousPhase == IF r.pk.previousPhase = "undefined"
                         THEN "question" ELSE r.pk.previousPhase
        resumed == [r EXCEPT !.pk.phase = previousPhase,
                             !.pk.waitingForPlayers = [defined |-> FALSE, ids |-> <<>>],
                             !.pk.previousPhase = "undefined"]
    IN IF previousPhase = "question"
       THEN StartQuestionTimer(resumed)
       ELSE IF previousPhase = "answer_reveal"
            THEN [resumed EXCEPT !.advanceTimer = SetTimer(@)]
            ELSE resumed

\* startGame()
StartGame(r) ==
    StartQuestionTimer([r EXCEPT !.pk.phase = "question",
                                 !.pk.currentQuestionIndex = 0,
                                 !.answered = [c \in ClientIds |-> 0]])

\* revealAnswer()
RevealAnswer(r) ==
    LET scored == [c \in ClientIds |->
                     LET player == r.pk.players[c]
                     IN IF player.present /\ player.isConnected
                           /\ player.currentAnswer = "correct"
                        THEN [player EXCEPT !.score = @ + 1]
                        ELSE player]
        revealed == ClearQuestionTimer([r EXCEPT !.pk.phase = "answer_reveal",
                                                 !.pk.players = scored])
    IN [revealed EXCEPT !.advanceTimer = SetTimer(@)]

\* endGame(): the first player with the highest score wins
EndGame(r) ==
    LET ids == PlayerIds(r.pk)
        score(i) == r.pk.players[ids[i]].score
        best == {i \in 1..Len(ids) :
                   /\ \A j \in 1..Len(ids) : score(j) <= score(i)
                   /\ \A j \in 1..(i - 1) : score(j) < score(i)}
    IN [r EXCEPT !.pk.phase = "game_over",
                 !.pk.winnerId = IF best = {} THEN "undefined"
                                 ELSE ids[CHOOSE i \in best : TRUE]]

\* advanceToNextQuestion()
AdvanceToNextQuestion(r) ==
    LET cleared == [ClearAdvanceTimer(r) EXCEPT
                      !.pk.players = [c \in ClientIds |->
                                         [@[c] EXCEPT !.currentAnswer = "undefined"]],
                      !.answered = [c \in ClientIds |-> 0]]
    IN IF cleared.pk.currentQuestionIndex < QuestionCount - 1
       THEN StartQuestionTimer([cleared EXCEPT !.pk.currentQuestionIndex = @ + 1,
                                               !.pk.phase = "question"])
       ELSE EndGame(cleared)

\* onSessionConnected(clientId, session, isReconnect)
OnSessionConnected(r, c, isReconnect) ==
    IF ~r.pk.players[c].present
    THEN r
    ELSE LET marked == [r EXCEPT !.pk.players[c].isConnected = TRUE]
         IN IF isReconnect /\ marked.pk.phase = "waiting_for_reconnection"
                /\ marked.pk.waitingForPlayers.defined
            THEN LET rest == [marked EXCEPT !.pk.waitingForPlayers.ids = Without(@, c)]
                 IN IF Len(rest.pk.waitingForPlayers.ids) = 0
                    THEN ResumeGame(rest) ELSE rest
            ELSE marked

\* Variant of OnSessionDisconnected that leaves the two timers running when
\* the game starts to wait.
OnSessionDisconnectedKeepingTimers(r, c) ==
    IF ~r.pk.players[c].present
    THEN r
    ELSE LET marked == [r EXCEPT !.pk.players[c].isConnected = FALSE,
                                 !.pk.players[c].isReady =
                                     IF r.pk.phase = "lobby" THEN FALSE ELSE @]
         IN IF marked.pk.phase \in {"question", "answer_reveal"}
            THEN [marked EXCEPT
                     !.pk.previousPhase = marked.pk.phase,
                     !.pk.phase = "waiting_for_reconnection",
                     !.pk.waitingForPlayers = [defined |-> TRUE, ids |-> <<c>>]]
            ELSE marked

\* onSessionDisconnected(clientId, session)
OnSessionDisconnected(r, c) ==
    IF ~r.pk.players[c].present
    THEN r
    ELSE LET marked == [r EXCEPT !.pk.players[c].isConnected = FALSE,
                                 !.pk.players[c].isReady =
                                     IF r.pk.phase = "lobby" THEN FALSE ELSE @]
         IN IF marked.pk.phase \in {"question", "answer_reveal"}
            THEN ClearAdvanceTimer(ClearQuestionTimer(
                    [marked EXCEPT
                        !.pk.previousPhase = marked.pk.phase,
                        !.pk.phase = "waiting_for_reconnection",
                        !.pk.waitingForPlayers = [defined |-> TRUE, ids |-> <<c>>]]))
            ELSE marked

\* onSessionTimeout(clientId, session)
OnSessionTimeout(r, c) ==
    IF ~r.pk.players[c].present
    THEN r
    ELSE IF r.pk.phase = "waiting_for_reconnection" /\ r.pk.waitingForPlayers.defined
         THEN LET rest == [r EXCEPT !.pk.waitingForPlayers.ids = Without(@, c)]
                  activePlayers == GetActivePlayers(rest.pk)
              IN IF Len(activePlayers) = 1
                 THEN [rest EXCEPT
                          !.pk.winnerId = activePlayers[1],
                          !.pk.phase = "game_over",
                          !.pk.waitingForPlayers = [defined |-> FALSE, ids |-> <<>>]]
                 ELSE IF Len(rest.pk.waitingForPlayers.ids) = 0
                      THEN ResumeGame(rest) ELSE rest
         ELSE r

\* What an event handler did: whether it threw, and the room after it.
Thrown(r) == [thrown |-> TRUE, room |-> r]
Handled(r) == [thrown |-> FALSE, room |-> r]

\* handlePlayerReady(client, ctx, ev)
HandlePlayerReady(r, ctx) ==
    IF r.pk.phase # "lobby" THEN Thrown(r)
    ELSE IF ctx.role # "PLAYER" THEN Thrown(r)
    ELSE IF ~r.pk.players[ctx.clientId].present THEN Thrown(r)
    ELSE LET ready == [r EXCEPT !.pk.players[ctx.clientId].isReady = TRUE]
             ids == PlayerIds(ready.pk)
             allReady == \A i \in 1..Len(ids) :
                            \/ ready.pk.players[ids[i]].isReady
                            \/ ~ready.pk.players[ids[i]].isConnected
         IN Handled(IF allReady /\ Len(ids) > 0 THEN StartGame(ready) ELSE ready)

\* handleSubmitAnswer(client, ctx, ev)
HandleSubmitAnswer(r, ctx, answer) ==
    IF r.pk.phase # "question" THEN Thrown(r)
    ELSE IF ctx.role # "PLAYER" THEN Thrown(r)
    ELSE IF ~r.pk.players[ctx.clientId].present THEN Thrown(r)
    ELSE IF r.pk.players[ctx.clientId].currentAnswer # "undefined" THEN Thrown(r)
    ELSE IF answer = "invalid" THEN Thrown(r)
    ELSE LET recorded == [r EXCEPT !.pk.players[ctx.clientId].currentAnswer = answer,
                                   !.answered[ctx.clientId] = @ + 1]
             ids == PlayerIds(recorded.pk)
             allAnswered == \A i \in 1..Len(ids) :
                               \/ ~recorded.pk.players[ids[i]].isConnected
                               \/ recorded.pk.players[ids[i]].currentAnswer # "undefined"
         IN Handled(IF allAnswered
                    THEN RevealAnswer(ClearQuestionTimer(recorded))
                    ELSE recorded)

\* onPartyKitGameEvent(client, ctx, ev)
OnTriviaGameEvent(r, ctx, name, answer) ==
    IF name = "player_ready" THEN HandlePlayerReady(r, ctx)
    ELSE IF name = "submit_answer" THEN HandleSubmitAnswer(r, ctx, answer)
    ELSE Thrown(r)

\* The room after a handler: pkState, the timers and the history together.
SetRoom(r) ==
    /\ triviaState' = r.pk
    /\ questionTimer' = r.questionTimer
    /\ advanceTimer' = r.advanceTimer
    /\ answered' = r.answered

\* The names of the game events sent.
TriviaEventNames == {"player_ready", "submit_answer", "other"}

\* A connection with this client id can send room.join: a client that has
\* not joined yet, or one that lost its connection and comes back inside
\* the grace period. A connection sends room.join once.
CanJoin(c) ==
    \/ ~sessionManager[c].exists /\ ~triviaState.players[c].present
    \/ sessionManager[c].exists /\ ~sessionManager[c].isConnected

\* onPartyKitJoin(client, ctx, join) of a player, with the call of
\* sessionManager.connect and its onSessionConnected hook. No hook of the
\* room awaits anything that takes a task of its own, so the whole handler
\* runs before any other message or timer is handled.
TriviaJoin(c) ==
    /\ UNCHANGED <<vars, roomVars, gameVars, codecVars, deferVars>>
    /\ CanJoin(c)
    /\ TriviaContext(c).role = "PLAYER"
    /\ LET session == sessionManager[c]
           isReconnect == enableReconnection /\ session.exists
           hooked == OnSessionConnected(TriviaRoom, c, isReconnect)
           currentPlayer == hooked.pk.players[c]
       IN IF isReconnect /\ session.data.defined
          THEN LET data == IF session.data.shared THEN currentPlayer
                                                  ELSE session.data.value
                   restored == [data EXCEPT
                                  !.present = TRUE,
                                  !.isConnected = IF currentPlayer.present
                                                  THEN currentPlayer.isConnected
                                                  ELSE TRUE]
               IN /\ SetRoom([hooked EXCEPT
                        !.pk.players[c] = restored,
                        !.pk.order = IF currentPlayer.present THEN @ ELSE Append(@, c)])
                  /\ sessionManager' = [sessionManager EXCEPT ![c] =
                        [exists |-> TRUE, isConnected |-> TRUE, timer |-> FALSE,
                         data |-> [defined |-> TRUE, shared |-> FALSE, value |-> data],
                         leftIn |-> "none"]]
          ELSE /\ SetRoom([hooked EXCEPT
                     !.pk.players[c] = [present |-> TRUE, isReady |-> FALSE,
                                        isConnected |-> TRUE, score |-> 0,
                                        currentAnswer |-> "undefined"],
                     !.pk.order = IF currentPlayer.present THEN @ ELSE Append(@, c)])
               /\ sessionManager' = [sessionManager EXCEPT ![c] =
                     [exists |-> TRUE, isConnected |-> TRUE, timer |-> FALSE,
                      data |-> [defined |-> TRUE, shared |-> TRUE, value |-> NoPlayer],
                      leftIn |-> "none"]]

\* The connection of a player is lost: sessionManager.disconnect(clientId)
\* with its onSessionDisconnected hook, then the grace timer (or, without
\* reconnection, onSessionTimeout and the removal of the session at once).
TriviaLeave(c) ==
    /\ UNCHANGED <<vars, roomVars, gameVars, codecVars, deferVars>>
    /\ sessionManager[c].exists /\ sessionManager[c].isConnected
    /\ LET hooked == OnSessionDisconnected(TriviaRoom, c)
       IN IF StartsTimer
          THEN /\ SetRoom(hooked)
               /\ sessionManager' = [sessionManager EXCEPT
                     ![c].isConnected = FALSE, ![c].timer = TRUE,
                     ![c].leftIn = triviaState.phase]
          ELSE /\ SetRoom(OnSessionTimeout(hooked, c))
               /\ sessionManager' = [sessionManager EXCEPT ![c] = NoTriviaSession]

\* The grace timer of a session fires: handleTimeout(clientId) with the
\* onSessionTimeout hook, then the session is deleted.
TriviaGraceTimeout(c) ==
    /\ UNCHANGED <<vars, roomVars, gameVars, codecVars, deferVars>>
    /\ sessionManager[c].exists /\ sessionManager[c].timer
    /\ SetRoom(OnSessionTimeout(TriviaRoom, c))
    /\ sessionManager' = [sessionManager EXCEPT ![c] = NoTriviaSession]

\* A game event of a connected client is handled.
TriviaGameEvent(s, name, answer) ==
    /\ UNCHANGED <<vars, roomVars, gameVars, codecVars, deferVars>>
    /\ s \in ClientIds => sessionManager[s].exists /\ sessionManager[s].isConnected
    /\ (s \in ClientIds /\ name = "submit_answer") => answered[s] < MaxAnswers
    /\ LET result == OnTriviaGameEvent(TriviaRoom, TriviaContext(s), name, answer)
       IN SetRoom(result.room)
    /\ UNCHANGED sessionManager

\* A pending timer fires and is pending no more: the one the handle refers
\* to, or one without a handle.
Fired(t, handle) ==
    IF handle THEN [t EXCEPT !.mapped = FALSE] ELSE [t EXCEPT !.leaked = @ - 1]

\* Whether such a timer is pending.
Pending(t, handle) == IF handle THEN t.mapped ELSE t.leaked > 0

\* The question timer fires: if (phase === "question") revealAnswer()
QuestionTimerFire(handle) ==
    /\ UNCHANGED <<vars, roomVars, gameVars, codecVars, deferVars>>
    /\ Pending(questionTimer, handle)
    /\ LET r == [TriviaRoom EXCEPT !.questionTimer = Fired(@, handle)]
       IN SetRoom(IF r.pk.phase = "question" THEN RevealAnswer(r) ELSE r)
    /\ UNCHANGED sessionManager

\* The advance timer fires: advanceToNextQuestion()
AdvanceTimerFire(handle) ==
    /\ UNCHANGED <<vars, roomVars, gameVars, codecVars, deferVars>>
    /\ Pending(advanceTimer, handle)
    /\ SetRoom(AdvanceToNextQuestion(
          [TriviaRoom EXCEPT !.advanceTimer = Fired(@, handle)]))
    /\ UNCHANGED sessionManager

TriviaNext ==
    \/ \E c \in ClientIds : TriviaJoin(c)
    \/ \E c \in ClientIds : TriviaLeave(c)
    \/ \E c \in ClientIds : TriviaGraceTimeout(c)
    \/ \E s \in TriviaSenders : \E name \in TriviaEventNames : \E answer \in Answers :
          /\ name # "submit_answer" => answer = "correct"
          /\ TriviaGameEvent(s, name, answer)
    \/ \E handle \in BOOLEAN : QuestionTimerFire(handle)
    \/ \E handle \in BOOLEAN : AdvanceTimerFire(handle)

\* The trivia game alone, with reconnection enabled.
TriviaSpec == RoomSpecInit /\ [][TriviaNext]_triviaVars

\* The same with the scheduling of the timers: a grace timer that stays
\* pending fires.
TriviaLiveSpec ==
    TriviaSpec /\ \A c \in ClientIds : WF_triviaVars(TriviaGraceTimeout(c))

TriviaPhases ==
    {"lobby", "question", "answer_reveal", "waiting_for_reconnection", "game_over"}

TriviaTypeOK ==
    /\ triviaState.phase \in TriviaPhases
    /\ triviaState.previousPhase \in {"undefined", "question", "answer_reveal"}
    /\ triviaState.currentQuestionIndex \in -1..(QuestionCount - 1)
    /\ triviaState.winnerId \in ClientIds \cup {"undefined"}
    /\ \A c \in ClientIds :
          /\ triviaState.players[c].score \in 0..QuestionCount
          /\ triviaState.players[c].currentAnswer \in {"undefined", "correct", "wrong"}
          /\ answered[c] \in 0..MaxAnswers
          /\ sessionManager[c].timer
                <=> (sessionManager[c].exists /\ ~sessionManager[c].isConnected)
    /\ questionTimer.leaked = 0 /\ advanceTimer.leaked = 0

\* ================================================================ claims
\* The number of calls of op(c, ...) in flight in tsk that are suspended at pc.
CallsAt(tsk, op, pc, c) ==
    BagCardinality([t \in {x \in BagToSet(tsk) :
                             x.op = op /\ x.pc = pc /\ x.clientId = c} |-> tsk[t]])

\* The call of connect(c, ...) that the step starts, if it starts one.
Started(c) ==
    IF CallsAt(tasks', "connect", "onConnected", c)
          = CallsAt(tasks, "connect", "onConnected", c) + 1
    THEN {t \in BagToSet(tasks') :
            /\ t.op = "connect" /\ t.clientId = c
            /\ t.session = sessions'[c]
            /\ CopiesIn(t, tasks') > CopiesIn(t, tasks)}
    ELSE {}

\* The pending timers of the clients other than c.
TimersOfOthers(tmr, c) == SelectSeq(tmr, LAMBDA x : x.clientId # c)

\* C1: for one disconnect of a client, at most one of onTimeout and
\* onConnected(isReconnect = true) executes, also when connect() runs while
\* the grace-timer callback awaits its hook: no handleTimeout call, suspended
\* in onTimeout and about to delete the session, has the client reconnect
\* under it.
C1_TimeoutExcludesReconnect ==
    \A t \in Running : t.op = "handleTimeout" => ~t.reconnected

\* C2: with reconnection enabled, a connect(c) made after disconnect(c) and
\* before the grace timer fired is a reconnect, and onTimeout(c) is never fired
\* on account of that disconnect: no timer that was pending when c
\* reconnected calls onTimeout later.
C2_ReconnectStopsTimeout ==
    \A t \in Running : t.op = "handleTimeout" => ~t.voided

\* C3: with reconnection enabled, after disconnect(c) with no connect(c),
\* remove(c) or clear() following, onTimeout(c, session) is called exactly
\* once: no two onTimeout calls are made for the session the map holds for c.
C3_TimeoutOnce ==
    \A c \in ClientIds :
        BagCardinality([t \in {x \in Running :
                                 /\ x.op = "handleTimeout" /\ x.clientId = c
                                 /\ x.session = sessions[c]
                                 /\ ~x.voided /\ ~x.reconnected /\ ~x.ownerRemoved}
                          |-> tasks[t]]) <= 1

\* C4: in every reachable state at most one grace-period timer is pending
\* per clientId.
C4_OnePendingTimer ==
    \A c \in ClientIds : Cardinality(PendingFor(c)) <= 1

\* C5: in every reachable state no session has isConnected = true while a
\* grace-period timer of its clientId is pending.
C5_ConnectedHasNoTimer ==
    \A c \in Connected : PendingFor(c) = {}

\* C6: after remove(c) or clear() has deleted a session record, onTimeout is
\* never fired for that record, neither by the call that was disconnecting it
\* nor by a timer started on its behalf firing on a later session of c.
C6_NoTimeoutAfterRemove ==
    \A t \in Running : ~t.ownerRemoved

\* C7: connect(c, ctx, d) when no record exists for c creates exactly one
\* record with context = ctx, isConnected = true, disconnectedAt absent and
\* data = d, calls onConnected(c, session, false) once and nothing else,
\* returns isReconnect = false, and leaves the records and timers of every
\* other client unchanged.
C7_NewConnection ==
    [][\A c \in ClientIds : \A t \in Started(c) :
          sessions[c] = "none" =>
             /\ sessions'[c] # "none"
             /\ All' = All \cup {c}
             /\ heap'[c] = [context |-> t.args[1], isConnected |-> TRUE,
                            disconnectedAt |-> Absent, data |-> t.args[2]]
             /\ t.hooks = <<Hook("onConnected", c, sessions'[c], FALSE)>>
             /\ t.isReconnect = FALSE
             /\ \A o \in ClientIds \ {c} :
                   /\ sessions'[o] = sessions[o]
                   /\ heap'[o] = heap[o]
                   /\ disconnectTimers'[o] = disconnectTimers[o]
             /\ TimersOfOthers(timers', c) = TimersOfOthers(timers, c)]_vars

\* C7 happens: a first connect of a client, with data, is in flight while
\* another client has a record and a pending grace timer.
C7_Witness ==
    \E t \in Running : \E o \in ClientIds \ {t.clientId} :
        /\ t.op = "connect" /\ ~t.isReconnect
        /\ t.session = sessions[t.clientId]
        /\ heap[t.clientId].data = "d1"
        /\ enableReconnection
        /\ sessions[o] # "none" /\ PendingFor(o) # {}

\* C8: connect(c, ctx2, d2) with reconnection enabled and a record for c
\* keeps the record object and its data (d2 is ignored), sets isConnected,
\* clears disconnectedAt, replaces the context by ctx2, cancels the timer
\* the manager holds for c, and calls onConnected(c, session, true) once and
\* nothing else.
C8_Reconnection ==
    [][\A c \in ClientIds : \A t \in Started(c) :
          (enableReconnection /\ sessions[c] # "none") =>
             /\ sessions'[c] = sessions[c]
             /\ heap'[c] = [context |-> t.args[1], isConnected |-> TRUE,
                            disconnectedAt |-> Absent, data |-> heap[c].data]
             /\ disconnectTimers'[c] = "none"
             /\ \A i \in 1..Len(timers') :
                   ~(timers'[i].clientId = c /\ timers'[i].mapped)
             /\ Len(timers') =
                   Len(timers) - Cardinality({i \in PendingFor(c) : timers[i].mapped})
             /\ t.hooks = <<Hook("onConnected", c, sessions[c], TRUE)>>
             /\ t.isReconnect = TRUE]_vars

\* C8 happens: a reconnect is in flight whose initialData differs from the
\* data the record kept, and whose context replaced the one of the first
\* connect.
C8_Witness ==
    \E t \in Running :
        /\ t.op = "connect" /\ t.isReconnect
        /\ t.session = sessions[t.clientId]
        /\ heap[t.clientId].data = "d1" /\ t.args[2] = "undefined"
        /\ heap[t.clientId].context = "ctx2"
        /\ heap[t.clientId].isConnected

\* C9: with reconnection disabled every connect(c, ...) makes a fresh
\* session from its arguments and returns isReconnect = false, also when a
\* record for c exists (it is replaced), and onConnected is called with
\* isReconnect = false.
C9_DisabledAlwaysFresh ==
    [][\A c \in ClientIds : \A t \in Started(c) :
          ~enableReconnection =>
             /\ t.isReconnect = FALSE
             /\ t.hooks = <<Hook("onConnected", c, sessions'[c], FALSE)>>
             /\ sessions'[c] \notin {"none", sessions[c]}
             /\ heap'[c] = [context |-> t.args[1], isConnected |-> TRUE,
                            disconnectedAt |-> Absent, data |-> t.args[2]]]_vars

\* C9 happens: reconnection is disabled and a connect that replaced the
\* record of its client is in flight.
C9_Witness ==
    /\ ~enableReconnection
    /\ \E t \in Running :
        /\ t.op = "connect" /\ t.session = "b"
        /\ sessions[t.clientId] = "b"

\* C10: with reconnection disabled, disconnect(c) on an existing session
\* calls onDisconnected(c, session) and then onTimeout(c, session), once
\* each, in the same call, has deleted the record when it returns, and no
\* grace-period timer is ever started (the timer map stays empty).
C10_DisabledDisconnect ==
    [][~enableReconnection =>
          /\ timers' = <<>>
          /\ \A c \in ClientIds : disconnectTimers'[c] = "none"
          /\ \A c \in ClientIds :
                /\ CallsAt(tasks', "disconnect", "onDisconnected", c)
                      < CallsAt(tasks, "disconnect", "onDisconnected", c)
                   => CallsAt(tasks', "disconnect", "onTimeout", c)
                         = CallsAt(tasks, "disconnect", "onTimeout", c) + 1
                /\ CallsAt(tasks', "disconnect", "onTimeout", c)
                      < CallsAt(tasks, "disconnect", "onTimeout", c)
                   => /\ sessions'[c] = "none"
                      /\ \A t \in Running :
                            (t.op = "disconnect" /\ t.pc = "onTimeout" /\ t.clientId = c)
                            => t.hooks = <<Hook("onDisconnected", c, t.session, FALSE),
                                           Hook("onTimeout", c, t.session, FALSE)>>]_vars

\* C10 happens: reconnection is disabled and a disconnect has called both
\* hooks while the record is still in the map.
C10_Witness ==
    /\ ~enableReconnection
    /\ \E t \in Running :
        /\ t.op = "disconnect" /\ t.pc = "onTimeout"
        /\ t.session = sessions[t.clientId]
        /\ Len(t.hooks) = 2

\* The number of calls of disconnect(c) in flight in tsk.
DisconnectCalls(tsk, c) ==
    CallsAt(tsk, "disconnect", "done", c)
        + CallsAt(tsk, "disconnect", "onDisconnected", c)
        + CallsAt(tsk, "disconnect", "onTimeout", c)

\* The call of disconnect(c) that the step starts, if it starts one.
DisconnectStarted(c) ==
    IF DisconnectCalls(tasks', c) = DisconnectCalls(tasks, c) + 1
    THEN {t \in BagToSet(tasks') :
            /\ t.op = "disconnect" /\ t.clientId = c
            /\ CopiesIn(t, tasks') > CopiesIn(t, tasks)}
    ELSE {}

\* C11: disconnect(c) on an existing session sets isConnected = false and
\* disconnectedAt to the current time, calls onDisconnected(c, session) once,
\* holds that session as its result, and changes neither the context or data
\* of the session nor the record of any other client, up to the moment the
\* hook has completed.
C11_Disconnect ==
    [][/\ \A c \in ClientIds : \A t \in DisconnectStarted(c) :
             sessions[c] # "none" =>
                /\ heap'[c] = [context |-> heap[c].context, isConnected |-> FALSE,
                               disconnectedAt |-> t.args[1], data |-> heap[c].data]
                /\ t.args[1] # Absent
                /\ t.session = sessions[c]
                /\ t.hooks = <<Hook("onDisconnected", c, sessions[c], FALSE)>>
                /\ sessions' = sessions
                /\ \A o \in ClientIds \ {c} : heap'[o] = heap[o]
       /\ \A c \in ClientIds :
             CallsAt(tasks', "disconnect", "onDisconnected", c)
                < CallsAt(tasks, "disconnect", "onDisconnected", c)
             => /\ sessions' = sessions /\ heap' = heap
                /\ \A t \in Running :
                      (t.op = "disconnect" /\ t.pc = "onDisconnected")
                      => t.hooks = <<Hook("onDisconnected", t.clientId, t.session, FALSE)>>]_vars

\* C11 happens: a disconnect of a session with data is suspended in
\* onDisconnected, stamped with the later time, while another client has a
\* record.
C11_Witness ==
    \E t \in Running : \E o \in ClientIds \ {t.clientId} :
        /\ t.op = "disconnect" /\ t.pc = "onDisconnected"
        /\ t.session = sessions[t.clientId]
        /\ heap[t.clientId] = [context |-> "ctx2", isConnected |-> FALSE,
                               disconnectedAt |-> 2, data |-> "d1"]
        /\ sessions[o] # "none"

\* C12: disconnect(c) and get(c) for a clientId without a record give
\* absent, call no hook, start no timer, and leave the sessions and the
\* timers unchanged.
C12_AbsentClient ==
    [][\A c \in ClientIds : \A t \in DisconnectStarted(c) :
          sessions[c] = "none" =>
             /\ t.pc = "done" /\ t.session = "none" /\ t.hooks = << >>
             /\ Get(c) = "none" /\ Get(c)' = "none"
             /\ UNCHANGED <<sessions, heap, disconnectTimers, timers>>]_vars

\* C12 happens: a disconnect of a client without a record has returned while
\* another client has a record and a pending grace timer.
C12_Witness ==
    \E t \in Running : \E o \in ClientIds \ {t.clientId} :
        /\ t.op = "disconnect" /\ t.pc = "done"
        /\ sessions[t.clientId] = "none"
        /\ sessions[o] # "none" /\ PendingFor(o) # {}

\* C13: a timeout deletes the session of c with all its fields, and a
\* connect(c, ctx, d) made when c has no record (as after the timeout) is a
\* new session: isReconnect = false in the result and in the onConnected
\* call, and the record is made of ctx and d only.
C13_NoReconnectAfterTimeout ==
    [][\A c \in ClientIds :
          /\ (\/ CallsAt(tasks', "handleTimeout", "onTimeout", c)
                    < CallsAt(tasks, "handleTimeout", "onTimeout", c)
              \/ CallsAt(tasks', "disconnect", "onTimeout", c)
                    < CallsAt(tasks, "disconnect", "onTimeout", c))
             => ~Has(c)' /\ heap'[c] = NoSession
          /\ \A t \in Started(c) :
                ~Has(c) =>
                   /\ t.isReconnect = FALSE
                   /\ \A i \in 1..Len(t.hooks) : t.hooks[i].isReconnect = FALSE
                   /\ t.session \notin {"none", "gone", "removed"}
                   /\ heap'[c].data = t.args[2]
                   /\ heap'[c].context = t.args[1]
                   /\ heap'[c].disconnectedAt = Absent]_vars

\* C13 happens: with reconnection enabled, a first connect of c is in flight
\* while a disconnect of c still holds the record that a timeout deleted.
C13_Witness ==
    /\ enableReconnection
    /\ \E t \in Running : \E u \in Running :
        /\ t.op = "connect" /\ ~t.isReconnect
        /\ t.session = sessions[t.clientId]
        /\ heap[t.clientId].data = "undefined"
        /\ u.op = "disconnect" /\ u.clientId = t.clientId /\ u.session = "gone"

\* ------------------------------------------------- room adapter claims
\* The handler call that the step starts, if it starts one.
CallStarted ==
    IF BagCardinality(calls') = BagCardinality(calls) + 1
    THEN {t \in BagToSet(calls') : CopiesIn(t, calls') > CopiesIn(t, calls)}
    ELSE {}

\* The handler call that the step resumes, before and after the step.
CallResumed ==
    IF BagCardinality(calls') = BagCardinality(calls)
    THEN {tu \in InFlight \X BagToSet(calls') :
            /\ CopiesIn(tu[1], calls') < CopiesIn(tu[1], calls)
            /\ CopiesIn(tu[2], calls') > CopiesIn(tu[2], calls)}
    ELSE {}

\* The positions of trace that hold a presence event of kind about clientId.
PresenceSends(trace, kind, clientId) ==
    {k \in 1..Len(trace) :
        /\ trace[k].type = "partykit/presence"
        /\ trace[k].data = [kind |-> kind, clientId |-> clientId]}

\* C14: a room.join or game.event envelope from a connection that has not
\* completed a successful hello is answered with one UNAUTHORIZED error
\* envelope and nothing else: no hook is called, no presence or state message
\* is sent, nothing is recorded.
C14_UnauthorizedBeforeHello ==
    [][\A t \in CallStarted :
          (/\ t.op \in {"handleRoomJoin", "handleGameEvent"}
           /\ t.env.payload = "valid"
           /\ connState[t.client] = "UNAUTHENTICATED")
          => /\ t.pc = "done"
             /\ t.trace = <<Msg("partykit/error", t.client, t.client, t.env.id,
                                [code |-> "UNAUTHORIZED", retryable |-> "false"])>>
             /\ UNCHANGED <<clients, left, ctxBySessionId, connState>>]_roomVars

\* C14 happens: a room.join of a connection without hello has been answered
\* while another connection is joined.
C14_Witness ==
    \E t \in InFlight : \E s \in SessionIds \ {t.client} :
        /\ t.op = "handleRoomJoin" /\ t.pc = "done" /\ t.env.payload = "valid"
        /\ connState[t.client] = "UNAUTHENTICATED"
        /\ Len(t.trace) = 1
        /\ IsClient(s) /\ connState[s] = "JOINED"

\* C15: onPartyKitGameEvent is called, and a state.request is answered with
\* a snapshot, only for a connection in state JOINED.
C15_HooksRequireJoined ==
    \A t \in InFlight :
        (\E k \in 1..Len(t.trace) :
            \/ t.trace[k].type = "onPartyKitGameEvent"
            \/ (t.op = "handleStateRequest"
                  /\ t.trace[k].type \in {"getStateSnapshot", "partykit/state"}))
        => connState[t.client] = "JOINED"

\* C16: when authorizeHello rejects a hello, the sender gets one hello.error
\* with the code and retryable of the rejection and replyTo = the id of the
\* hello, no hello.ok, the presence tracker is unchanged, and a connection
\* that was unauthenticated has no context (its room.join is unauthorized).
C16_HelloRejected ==
    [][\A tu \in CallResumed :
          (tu[1].op = "handleHello" /\ ~tu[2].auth.ok)
          => /\ tu[2].trace =
                   <<HookCall("authorizeHello", tu[1].client),
                     Msg("partykit/hello/error", tu[1].client, tu[1].client,
                         tu[1].env.id,
                         [code |-> tu[2].auth.code,
                          retryable |-> IF tu[2].auth.retryable = "true"
                                        THEN "true" ELSE "false"])>>
             /\ tu[2].pc = "done"
             /\ UNCHANGED <<clients, left, ctxBySessionId, connState>>
             /\ connState[tu[1].client] = "UNAUTHENTICATED"
                   => PresenceGet(ctxBySessionId', tu[1].client) = NoContext]_roomVars

\* C16 happens: a hello of an unauthenticated connection has been rejected
\* with retryable left out, while another connection is tracked.
C16_Witness ==
    \E t \in InFlight :
        /\ t.op = "handleHello" /\ t.pc = "done"
        /\ ~t.auth.ok /\ t.auth.code = "ROOM_FULL" /\ t.auth.retryable = "undefined"
        /\ t.env.id = "m2"
        /\ connState[t.client] = "UNAUTHENTICATED"
        /\ ctxBySessionId # << >>

\* C17: when authorizeHello accepts a hello, the context it returned is
\* stored in the presence tracker under the session id of the connection and
\* under no other key, and one hello.ok carrying the context, with replyTo =
\* the id of the hello, is sent to that connection only.
C17_HelloAccepted ==
    [][\A tu \in CallResumed :
          (tu[1].op = "handleHello" /\ tu[2].auth.ok)
          => /\ PresenceGet(ctxBySessionId', tu[1].client) = tu[2].auth.context
             /\ tu[2].auth.context # NoContext
             /\ \A s \in SessionIds \ {tu[1].client} :
                   PresenceGet(ctxBySessionId', s) = PresenceGet(ctxBySessionId, s)
             /\ Len(ctxBySessionId') = Len(ctxBySessionId)
                   + (IF PresenceGet(ctxBySessionId, tu[1].client) = NoContext
                      THEN 1 ELSE 0)
             /\ tu[2].trace =
                   <<HookCall("authorizeHello", tu[1].client),
                     Msg("partykit/hello/ok", tu[1].client, tu[1].client,
                         tu[1].env.id, tu[2].auth.context)>>]_roomVars

\* C17 happens: a hello of the second connection has been accepted while the
\* first one is tracked.
C17_Witness ==
    \E t \in InFlight :
        /\ t.op = "handleHello" /\ t.pc = "done" /\ t.auth.ok
        /\ t.client = "s2"
        /\ Len(ctxBySessionId) = 2
        /\ ctxBySessionId[1].sessionId = "s1"

\* The step of a join that a send or hook call belongs to.
JoinStage(m, client) ==
    IF m.type = "partykit/room/joined" THEN 1
    ELSE IF m.type = "partykit/self" THEN 2
    ELSE IF m.type = "partykit/presence" /\ m.recipient = client THEN 3
    ELSE IF m.type = "partykit/presence" THEN 4
    ELSE IF m.type = "getStateSnapshot" THEN 5
    ELSE IF m.type = "partykit/state" THEN 6
    ELSE IF m.type = "onPartyKitJoin" THEN 7
    ELSE 0

\* C18: for every accepted room.join the sends and hook calls are in this
\* order: room.joined, self, the catch-up presence events to the joiner, the
\* broadcast presence event to the others, the state snapshot, the
\* onPartyKitJoin hook.
C18_JoinOrder ==
    \A t \in InFlight :
        (t.op = "handleRoomJoin" /\ t.pc # "done")
        => /\ Len(t.trace) >= 3
           /\ JoinStage(t.trace[1], t.client) = 1
           /\ JoinStage(t.trace[2], t.client) = 2
           /\ \A i, j \in 1..Len(t.trace) :
                 i < j => /\ JoinStage(t.trace[i], t.client) >= 1
                          /\ JoinStage(t.trace[i], t.client)
                                <= JoinStage(t.trace[j], t.client)
           /\ \A n \in {1, 2, 5, 6, 7} :
                 Cardinality({i \in 1..Len(t.trace) :
                                JoinStage(t.trace[i], t.client) = n}) <= 1
           /\ JoinStage(t.trace[Len(t.trace)], t.client)
                 = IF t.pc = "getStateSnapshot" THEN 5 ELSE 7
           /\ t.pc = "onPartyKitJoin"
                 => JoinStage(t.trace[Len(t.trace) - 1], t.client) = 6

\* C18 happens: a join with catch-up events and broadcast events awaits the
\* onPartyKitJoin hook.
C18_Witness ==
    \E t \in InFlight :
        /\ t.op = "handleRoomJoin" /\ t.pc = "onPartyKitJoin"
        /\ \E i, j \in 1..Len(t.trace) :
              /\ JoinStage(t.trace[i], t.client) = 3
              /\ JoinStage(t.trace[j], t.client) = 4

\* C19: on an accepted room.join the joiner is sent one catch-up
\* presence(JOIN) event for each other client the presence tracker holds and
\* none for itself, and no such event is sent to another connection.
C19_CatchUp ==
    [][\A t \in CallStarted :
          (t.op = "handleRoomJoin" /\ t.pc # "done")
          => /\ \A i \in 1..Len(ctxBySessionId) :
                   Cardinality({k \in PresenceSends(t.trace, "JOIN",
                                                    ctxBySessionId[i].ctx.clientId) :
                                   /\ t.trace[k].recipient = t.client
                                   /\ t.trace[k].to = t.client})
                      = IF ctxBySessionId[i].sessionId = t.client THEN 0 ELSE 1
             /\ Cardinality({k \in 1..Len(t.trace) :
                               /\ t.trace[k].type = "partykit/presence"
                               /\ t.trace[k].recipient = t.client})
                   = Len(ctxBySessionId) - 1
             /\ \A k \in 1..Len(t.trace) :
                   (t.trace[k].type = "partykit/presence"
                       /\ t.trace[k].recipient # t.client)
                   => t.trace[k].data.clientId = t.ctx.clientId]_roomVars

\* C19 happens: a join has sent two catch-up events, one for each of the two
\* other clients the presence tracker holds.
C19_Witness ==
    \E t \in InFlight :
        /\ t.op = "handleRoomJoin" /\ t.pc = "getStateSnapshot"
        /\ Cardinality({k \in 1..Len(t.trace) :
                          JoinStage(t.trace[k], t.client) = 3}) = 2
        /\ Len(ctxBySessionId) = 3

\* C20: the presence(JOIN) event broadcast for a newly joined client is sent
\* once to every other connection of the room and never to the joining one.
C20_JoinBroadcast ==
    [][\A t \in CallStarted :
          (t.op = "handleRoomJoin" /\ t.pc # "done")
          => \A c \in SessionIds :
                Cardinality({k \in PresenceSends(t.trace, "JOIN", t.ctx.clientId) :
                                t.trace[k].recipient = c})
                   = IF IsClient(c) /\ c # t.client THEN 1 ELSE 0]_roomVars

\* C20 happens: a join in a room of three connections has broadcast its
\* event to the two others.
C20_Witness ==
    \E t \in InFlight :
        /\ t.op = "handleRoomJoin" /\ t.pc = "getStateSnapshot"
        /\ Len(clients) = 3
        /\ Cardinality(PresenceSends(t.trace, "JOIN", t.ctx.clientId)) = 2

\* The handler calls in flight (a call of which the bag holds two copies
\* counts twice) that satisfy P.
NumberOf(P(_)) ==
    LET ts == {t \in InFlight : P(t)}
    IN IF ts = {} THEN 0
       ELSE IF \E t \in ts : CopiesIn(t, calls) > 1 \/ ts # {t} THEN 2
       ELSE 1

\* The sends of trace that broadcast a presence event of kind about
\* clientId to the connection recipient.
PresenceBroadcasts(trace, kind, clientId, recipient) ==
    {k \in PresenceSends(trace, kind, clientId) :
        trace[k].to = "broadcast" /\ trace[k].recipient = recipient}

\* C21: the broadcast presence(JOIN) naming the client of a connection, and
\* its presence(LEAVE), is emitted at most once: no connection is sent the
\* same event twice, whatever hello and room.join envelopes are sent.
C21_PresenceOnce ==
    \A x, c \in SessionIds : \A kind \in {"JOIN", "LEAVE"} :
        /\ \A t \in InFlight :
              Cardinality(PresenceBroadcasts(t.trace, kind, x, c)) <= 1
        /\ LET Emits(t) == PresenceBroadcasts(t.trace, kind, x, c) # {}
           IN NumberOf(Emits) <= 1

\* C22: when a connection is closed and no context is tracked for its
\* session id, nothing is broadcast and the tracker is unchanged; when a
\* context is tracked, one presence(LEAVE) for it is sent to each remaining
\* connection and to no other, and the entry is removed: get(sessionId) is
\* absent afterwards and the other entries are unchanged.
C22_Leave ==
    [][\A t \in CallStarted :
          t.op = "onLeave"
          => LET ctx == PresenceGet(ctxBySessionId, t.client)
             IN /\ t.ctx = ctx
                /\ ~IsClient(t.client)'
                /\ IF ctx = NoContext
                   THEN /\ t.trace = << >>
                        /\ ctxBySessionId' = ctxBySessionId
                   ELSE /\ PresenceGet(ctxBySessionId', t.client) = NoContext
                        /\ Len(ctxBySessionId') = Len(ctxBySessionId) - 1
                        /\ \A s \in SessionIds \ {t.client} :
                              PresenceGet(ctxBySessionId', s)
                                 = PresenceGet(ctxBySessionId, s)
                        /\ Len(t.trace) = Len(clients')
                        /\ \A c \in SessionIds :
                              Cardinality(PresenceBroadcasts(t.trace, "LEAVE",
                                                             ctx.clientId, c))
                                 = IF IsClient(c)' THEN 1 ELSE 0]_roomVars

\* C22 happens: a connection with a tracked context has been closed while
\* two others are in the room.
C22_Witness ==
    \E t \in InFlight :
        /\ t.op = "onLeave" /\ t.ctx # NoContext
        /\ Len(t.trace) = 2
        /\ PresenceGet(ctxBySessionId, t.client) = NoContext

\* C23: when onPartyKitGameEvent throws, the handler returns having sent one
\* error envelope with code INTERNAL and retryable = true, correlated to
\* the game.event, to the sending connection and nothing to any other; the
\* client list, the presence tracker and tick are unchanged.
C23_HookError ==
    [][\A tu \in CallResumed :
          (tu[1].op = "handleGameEvent" /\ tu[2].thrown)
          => /\ tu[2].trace =
                   <<HookCall("onPartyKitGameEvent", tu[1].client),
                     Msg("partykit/error", tu[1].client, tu[1].client, tu[1].env.id,
                         [code |-> "INTERNAL", retryable |-> "true"])>>
             /\ tu[2].pc = "done"
             /\ UNCHANGED <<clients, left, ctxBySessionId, connState, tick>>
             /\ \A t \in InFlight \ {tu[1]} : CopiesIn(t, calls') = CopiesIn(t, calls)]_roomVars

\* C23 happens: the hook has thrown for the second connection while the
\* first one is joined and a call of the first one is suspended.
C23_Witness ==
    \E t, u \in InFlight :
        /\ t.op = "handleGameEvent" /\ t.thrown /\ t.client = "s2"
        /\ u.client = "s1" /\ u.pc # "done"
        /\ IsClient("s1") /\ connState["s1"] = "JOINED"

\* The error envelopes among the sends of trace.
ErrorSends(trace) ==
    {k \in 1..Len(trace) :
        trace[k].type \in {"partykit/error", "partykit/hello/error"}}

\* C24: an envelope whose payload is missing or is not of the expected type
\* is answered with one BAD_REQUEST error envelope with replyTo = the id of
\* the envelope, for each of hello, room.join, state.request, ping and
\* game.event; it is never dropped without a reply.
C24_BadRequest ==
    \A t \in InFlight :
        (t.pc = "done" /\ t.env.payload = "invalid")
        => t.trace = <<Msg("partykit/error", t.client, t.client, t.env.id,
                           [code |-> "BAD_REQUEST", retryable |-> "false"])>>

\* The ticks of the state snapshots a call has emitted.
TicksOf(t) ==
    {t.trace[k].data.tick : k \in {i \in 1..Len(t.trace) :
                                      t.trace[i].type = "partykit/state"}}

\* C25: no two snapshot emissions carry the same tick, also when an
\* emission is started before the getStateSnapshot of an earlier one has
\* completed.
C25_TickUnique ==
    /\ \A t \in InFlight : Cardinality(TicksOf(t)) <= 1
    /\ \A n \in 1..tick :
          LET Emits(t) == n \in TicksOf(t)
          IN NumberOf(Emits) <= 1

\* The request of a call was rejected: not decodable, sent without a
\* context, refused by authorizeHello, or failed in the game hook.
Rejected(t) ==
    /\ t.op \in {"handleHello", "handleRoomJoin", "handleStateRequest",
                 "handlePing", "handleGameEvent"}
    /\ t.pc = "done"
    /\ \/ t.env.payload = "invalid"
       \/ /\ t.env.payload = "valid"
          /\ \/ t.op = "handleHello" /\ ~t.auth.ok
             \/ t.op \in {"handleRoomJoin", "handleStateRequest", "handleGameEvent"}
                   /\ t.ctx = NoContext
             \/ t.thrown

\* C26: every request the adapter rejects produces one error envelope, sent
\* to the connection that sent the request only, with replyTo = the id of
\* the rejected envelope.
C26_RejectedGetsError ==
    \A t \in InFlight :
        Rejected(t)
        => /\ Cardinality(ErrorSends(t.trace)) = 1
           /\ \A k \in ErrorSends(t.trace) :
                 /\ t.trace[k].recipient = t.client
                 /\ t.trace[k].to = t.client
                 /\ t.trace[k].replyTo = t.env.id

\* C27: the processing of one envelope or disconnect, the hooks it awaits
\* included, completes before the processing of another begins: no two
\* handlers are in flight in one room.
C27_Serialized ==
    LET Handling(t) == t.op # "broadcastStateUpdate"
    IN NumberOf(Handling) <= 1

\* C28: the role and the capabilities assigned to a client do not depend on
\* the declared kind: two hello claims that differ only in kind are assigned
\* the same role and the same capabilities.
C28_RoleIndependentOfKind ==
    \A a, b \in SessionIds :
        (/\ gameHello[a] # NoHello /\ gameHello[b] # NoHello
         /\ gameHello[a].name = gameHello[b].name)
        => /\ gameCtx[a].role = gameCtx[b].role
           /\ gameCtx[a].capabilities = gameCtx[b].capabilities

\* C29: with a host A (role HOST, capability CanStartGame) and a player B
\* (role PLAYER, no capabilities) both joined, a game.event start_game of B
\* leaves the phase and the game state unchanged, B is sent one error
\* envelope, and A is sent nothing and stays joined with its context.
C29_PlayerCannotStart ==
    [][\A a, b \in SessionIds :
          (/\ {a, b} \subseteq gameJoined
           /\ gameCtx[a].role = "HOST" /\ "CanStartGame" \in gameCtx[a].capabilities
           /\ gameCtx[b].role = "PLAYER" /\ gameCtx[b].capabilities = {}
           /\ handled' # handled
           /\ handled'.client = b /\ handled'.type = "game.event"
           /\ handled'.name = "start_game")
          => /\ pkState' = pkState
             /\ handled'.sent = <<Msg("partykit/error", b, b, GameEnvelope.id,
                                      [code |-> "INTERNAL", retryable |-> "true"])>>
             /\ UNCHANGED <<gameJoined, gameCtx>>]_gameVars

\* C29 happens: the player's start_game has been answered with an error
\* while host and player are joined and the game is in the lobby.
C29_Witness ==
    /\ {"s1", "s2"} \subseteq gameJoined
    /\ gameCtx["s1"].role = "HOST" /\ gameCtx["s2"].role = "PLAYER"
    /\ handled.client = "s2" /\ handled.name = "start_game"
    /\ Len(handled.sent) = 1
    /\ pkState.phase = "lobby"

DisconnectResumed(c) ==
    CallsAt(tasks', "disconnect", "onDisconnected", c)
       < CallsAt(tasks, "disconnect", "onDisconnected", c)

\* The step starts a grace timer of c.
TimerStarted(c) ==
    /\ Len(timers') > Len(timers)
    /\ timers'[Len(timers')].clientId = c

\* A call of disconnect(c, ...) begins onTimeout itself in the step
\* (reconnection disabled).
TimeoutBegun(c) ==
    CallsAt(tasks', "disconnect", "onTimeout", c)
       > CallsAt(tasks, "disconnect", "onTimeout", c)

\* C31: disconnect(c) starts the grace timer, or calls onTimeout itself
\* when reconnection is disabled, only after its onDisconnected hook has
\* completed: every step that starts a grace timer of c or begins the
\* onTimeout of a disconnect of c is the step in which a disconnect of c
\* resumes from its awaited onDisconnected hook, and the hooks of a
\* disconnect that is in onTimeout are onDisconnected first, onTimeout
\* second.
C31_TimerAfterHook ==
    [][\A c \in ClientIds :
          /\ (TimerStarted(c) \/ TimeoutBegun(c)) => DisconnectResumed(c)
          /\ \A t \in BagToSet(tasks') :
                (t.op = "disconnect" /\ t.pc = "onTimeout")
                => /\ Len(t.hooks) = 2
                   /\ t.hooks[1].name = "onDisconnected"
                   /\ t.hooks[2].name = "onTimeout"]_vars

\* C31 happens: a disconnect has returned with its grace timer pending.
C31_Witness ==
    \E c \in ClientIds :
       /\ disconnectTimers[c] = "pending"
       /\ PendingFor(c) # {}
       /\ sessions[c] # "none" /\ ~heap[c].isConnected
       /\ CallsAt(tasks, "disconnect", "onDisconnected", c) = 0

\* C32: while the onTimeout hook that handleTimeout awaits is running, the
\* session it was called with is still the record of the client (get
\* returns it, has is true) and no timer entry exists for the client; the
\* record is deleted only when the hook has completed. Calls whose record
\* remove() or clear() deleted meanwhile are left out.
C32_SessionKeptDuringTimeout ==
    \A t \in Running :
       (t.op = "handleTimeout" /\ t.pc = "onTimeout" /\ t.session # "removed")
       => /\ Has(t.clientId)
          /\ Get(t.clientId) = t.session
          /\ disconnectTimers[t.clientId] = "none"

\* C33: for every session record, isConnected is true exactly when
\* disconnectedAt is absent; connected() and disconnected() partition all()
\* and size is the sum of their sizes.
C33_ConnectedIffNoDisconnectTime ==
    /\ \A c \in All : heap[c].isConnected <=> (heap[c].disconnectedAt = Absent)
    /\ Connected \cap Disconnected = {}
    /\ Connected \cup Disconnected = All
    /\ Size = Cardinality(Connected) + Cardinality(Disconnected)

\* C33 happens: one client has reconnected and its record carries no
\* disconnect time, while another client is disconnected with its time set.
C33_Witness ==
    \E c, d \in ClientIds :
       /\ c \in Connected /\ heap[c].disconnectedAt = Absent
       /\ \E t \in Running :
             t.op = "connect" /\ t.clientId = c /\ t.isReconnect
       /\ d \in Disconnected /\ heap[d].disconnectedAt \in Times
       /\ Size = 2

\* C35: every context held by the presence tracker is stored under the
\* session id of a connection that is still connected: once the disconnect
\* of a connection has been processed, nothing is tracked under its session
\* id, also when the disconnect arrives while its hello awaits
\* authorizeHello.
C35_TrackedAreConnected ==
    \A i \in 1..Len(ctxBySessionId) :
       /\ IsClient(ctxBySessionId[i].sessionId)
       /\ ctxBySessionId[i].sessionId \notin left

\* C34: a deferred client is never both rejected and retained: no deferred
\* client that reject() was called on is stored in deferredClients (a
\* timeout removes the entry of the deferred client it rejects, a
\* reconnection removes the entry without rejecting).
C34_NotRejectedAndRetained ==
    \A c \in ClientIds :
       GetDeferredClient(c) # "none" => rejections[GetDeferredClient(c)] = 0

\* C36: within one question each player has at most one recorded answer
\* (a submit_answer of a player whose answer is recorded is refused and
\* changes nothing).
C36_OneAnswerPerQuestion ==
    \A c \in ClientIds : answered[c] <= 1

\* The players that lost their connection during the game and are inside
\* their grace period: neither reconnected nor timed out.
AwaitedPlayers(sm) ==
    {c \in ClientIds :
        /\ sm[c].exists /\ ~sm[c].isConnected /\ sm[c].timer
        /\ sm[c].leftIn \in {"question", "answer_reveal", "waiting_for_reconnection"}}

\* C37: the game leaves waiting_for_reconnection for question or
\* answer_reveal only when no player that disconnected during the game is
\* still inside its grace period, also when a second player disconnected
\* while the game was waiting.
C37_ResumeWhenNoneAwaited ==
    [][(/\ triviaState.phase = "waiting_for_reconnection"
        /\ triviaState'.phase \in {"question", "answer_reveal"})
       => AwaitedPlayers(sessionManager') = {}]_triviaVars

\* C38: game_over is absorbing: once the phase is game_over, no game
\* event, timer, disconnect, reconnect or session timeout changes the
\* phase, winnerId, the score of a player or currentQuestionIndex.
C38_GameOverAbsorbing ==
    [][triviaState.phase = "game_over"
       => /\ triviaState'.phase = "game_over"
          /\ triviaState'.winnerId = triviaState.winnerId
          /\ triviaState'.currentQuestionIndex = triviaState.currentQuestionIndex
          /\ \A c \in ClientIds :
                triviaState.players[c].present
                => triviaState'.players[c].score = triviaState.players[c].score]_triviaVars

\* C39: while the phase is waiting_for_reconnection no question timer and
\* no advance timer is pending, and whenever the phase is
\* waiting_for_reconnection it eventually becomes question, answer_reveal
\* or game_over, given that the grace timer of a session that does not
\* reconnect fires.
C39_WaitingEnds ==
    /\ [](triviaState.phase = "waiting_for_reconnection"
          => /\ ~questionTimer.mapped /\ questionTimer.leaked = 0
             /\ ~advanceTimer.mapped /\ advanceTimer.leaked = 0)
    /\ (triviaState.phase = "waiting_for_reconnection")
          ~> (triviaState.phase \in {"question", "answer_reveal", "game_over"})

\* C39 happens: the game waited for a player whose grace timer fired, and
\* went on to game_over with the one player left as the winner.
C39_Witness ==
    /\ triviaState.phase = "game_over"
    /\ triviaState.previousPhase # "undefined"
    /\ triviaState.winnerId \in ClientIds
    /\ \E c \in ClientIds :
          /\ triviaState.players[c].present /\ ~triviaState.players[c].isConnected
          /\ ~sessionManager[c].exists
====
